---- MODULE Spec2Model ----
(***************************************************************************)
(* srcpd_rust: SRCP 0.8.4 daemon.  Model of the SRCP session layer         *)
(* (srcp.rs), the per-bus DDL scheduler (srcp_server_ddl.rs), the DDL      *)
(* device handlers Power, GL, GA and SM (srcp_devices_ddl_*.rs) and the    *)
(* service mode helper tasks (srcp_dcc_prog.rs, srcp_mfx_rds.rs).          *)
(*                                                                         *)
(* One DDL bus (bus 1) is modelled.  Time is a millisecond counter `now`   *)
(* (Instant::now()); Durations are millisecond numbers.  A thread that     *)
(* panics (unwrap on None/Err, index out of range) stops for good: its     *)
(* program counter becomes "panic" and its channel receiver is dropped.    *)
(***************************************************************************)
EXTENDS Integers, Sequences, FiniteSets, TLC

\* ------------------------------------------------------------------------
\* Bounds of the exploration
\* ------------------------------------------------------------------------
\* largest number a parameter token can denote in the model
MaxNum == 300
\* messages the info channel may hold when a scheduler step starts (the
\* mpsc channel itself is unbounded)
MaxInfoTx == 0

\* ------------------------------------------------------------------------
\* Constants of the program
\* ------------------------------------------------------------------------
WATCHDOG_TIMEOUT == 2000
DELAY_POWER_ON_MELDUNG == 100
REPLY_TIMEOUT == 500
IDLE_COUNT_MM_DCC == 2
MAX_MM_ADRESSE == 80
MAX_MM_GA_ADRESSE == (MAX_MM_ADRESSE + 1) * 4
MAX_DCC_GA_ADRESSE == 2047
MAX_DCC_GL_ADRESSE_KURZ == 127
MAX_DCC_GL_ADRESSE_LANG == 10239
MAX_MFX_GL_ADRESSE == 16383
\* DccProgThread::execute: CV numbers go from 1 to 1024
MAX_CV == 1024
\* the bus number the DDL server is configured on
BusNr == 1
\* Option<u32>::None of a session id
None == -1

\* ------------------------------------------------------------------------
\* Strings and numbers: str::parse::<u32>() and u32::to_string()
\* ------------------------------------------------------------------------
Digit == <<"0", "1", "2", "3", "4", "5", "6", "7", "8", "9">>

RECURSIVE to_string(_)
to_string(n) ==
  IF n < 10 THEN Digit[n + 1]
  ELSE to_string(n \div 10) \o Digit[(n % 10) + 1]

\* the numbers a parameter token can denote in the model: 0..MaxNum, the
\* upper limits of the long DCC and the MFX address range and of the CV
\* numbers, and the successor of each limit
Zahlen ==
  (0..MaxNum) \cup {MAX_DCC_GL_ADRESSE_LANG, MAX_DCC_GL_ADRESSE_LANG + 1,
                    MAX_MFX_GL_ADRESSE, MAX_MFX_GL_ADRESSE + 1,
                    MAX_CV, MAX_CV + 1}

\* the decimal tokens the model can parse: the canonical decimals of these
\* numbers, and "01" as a non-canonical spelling of 1
Decimal ==
  [s \in {to_string(n) : n \in Zahlen} |->
     CHOOSE n \in Zahlen : to_string(n) = s]

ParseOk(s) == s = "01" \/ s \in DOMAIN Decimal

Parse(s) == IF s = "01" THEN 1 ELSE Decimal[s]

\* ------------------------------------------------------------------------
\* SRCP messages (srcp_server_types.rs)
\* ------------------------------------------------------------------------
\* a command: SRCPMessage with message_id Command{msg_type}
Cmd(sid, typ, dev, par) ==
  [kind |-> "CMD", sid |-> sid, bus |-> BusNr, code |-> typ, text |-> "", dev |-> dev,
   par |-> par]

NewInfoClient(sid) ==
  [kind |-> "NEWINFOCLIENT", sid |-> sid, bus |-> BusNr, code |-> "", text |-> "",
   dev |-> "", par |-> << >>]

new_ok(msg, ok_code) ==
  [kind |-> "OK", sid |-> msg.sid, bus |-> msg.bus, code |-> ok_code, text |-> "",
   dev |-> msg.dev, par |-> << >>]

new_err(msg, err_code, err_text) ==
  [kind |-> "ERROR", sid |-> msg.sid, bus |-> msg.bus, code |-> err_code,
   text |-> err_text, dev |-> msg.dev, par |-> << >>]

new_info(sid, dev, par) ==
  [kind |-> "INFO", sid |-> sid, bus |-> BusNr, code |-> "100", text |-> "", dev |-> dev,
   par |-> par]

\* SRCPMessage::get_adr: the first parameter as a number, None without one
get_adr(msg) ==
  IF Len(msg.par) > 0 /\ ParseOk(msg.par[1]) THEN Parse(msg.par[1]) ELSE None

\* SRCPMessage::to_string: the line as it goes to the socket (without the
\* timestamp): the short form for errors, else id, bus, device and every
\* parameter followed by a space
RECURSIVE ParamStr(_)
ParamStr(par) ==
  IF Len(par) = 0 THEN "" ELSE Head(par) \o " " \o ParamStr(Tail(par))

Line(msg) ==
  IF msg.kind = "ERROR" THEN msg.code \o " ERROR " \o msg.text
  ELSE (CASE msg.kind = "INFO" -> msg.code \o " INFO"
          [] msg.kind = "OK" -> msg.code \o " OK"
          [] OTHER -> msg.code)
       \o " " \o to_string(msg.bus) \o " " \o msg.dev \o " " \o ParamStr(msg.par)

\* mutation: every line is taken for a command of the bus
SRCPMessageFrom_immer(session_id, cmd) ==
  [ok |-> TRUE, msg |-> Cmd(session_id, "GET", "POWER", << >>)]

\* SRCPMessage::from: the command of a split line, or the parser's error
SRCPMessageFrom(session_id, cmd) ==
  IF Len(cmd) < 3 THEN [ok |-> FALSE, err |-> "419 ERROR list too short"]
  ELSE IF cmd[1] \notin {"GET", "SET", "VERIFY", "INIT", "TERM"}
         THEN [ok |-> FALSE, err |-> "410 ERROR unknown command"]
  ELSE IF ~ParseOk(cmd[2]) THEN [ok |-> FALSE, err |-> "412 ERROR wrong value"]
  ELSE IF cmd[3] \notin {"GA", "GL", "FB", "SM", "POWER"}
         THEN [ok |-> FALSE, err |-> "421 ERROR unsupported device"]
  ELSE [ok |-> TRUE,
        msg |-> [Cmd(session_id, cmd[1], cmd[3], SubSeq(cmd, 4, Len(cmd)))
                   EXCEPT !.bus = Parse(cmd[2])]]

\* ------------------------------------------------------------------------
\* A command line on its way from the socket to a message (srcp.rs): the
\* line is a sequence of bytes, every byte written as its character and the
\* carriage return as "CR"
\* ------------------------------------------------------------------------
Klein == << "a", "b", "c", "d", "e", "f", "g", "h", "i", "j", "k", "l", "m", "n", "o",
            "p", "q", "r", "s", "t", "u", "v", "w", "x", "y", "z" >>
Gross == << "A", "B", "C", "D", "E", "F", "G", "H", "I", "J", "K", "L", "M", "N", "O",
            "P", "Q", "R", "S", "T", "U", "V", "W", "X", "Y", "Z" >>

\* u8::to_ascii_uppercase
to_ascii_uppercase(c) ==
  IF \E i \in 1..Len(Klein) : Klein[i] = c
    THEN Gross[CHOOSE i \in 1..Len(Klein) : Klein[i] = c]
    ELSE c

\* mutation: the line is taken as it was sent
read_line_roh(bytes) == SelectSeq(bytes, LAMBDA c : c # "CR")

\* read_line: the bytes up to the newline; a byte outside ' '..'~' is
\* dropped, every other one is made upper case
read_line(bytes) ==
  LET druckbar == SelectSeq(bytes, LAMBDA c : c # "CR")
  IN  [i \in 1..Len(druckbar) |-> to_ascii_uppercase(druckbar[i])]

\* the characters of a line as a string
RECURSIVE Text(_)
Text(chars) == IF chars = << >> THEN "" ELSE Head(chars) \o Text(Tail(chars))

\* split_unquoted_char(line, ' ') for a line without quotes: the parts
\* between the spaces; wort is the part that is being collected
RECURSIVE split_unquoted_char(_, _)
split_unquoted_char(line, wort) ==
  IF line = << >> THEN << wort >>
  ELSE IF Head(line) = " " THEN << wort >> \o split_unquoted_char(Tail(line), "")
  ELSE split_unquoted_char(Tail(line), wort \o Head(line))

\* ------------------------------------------------------------------------
\* Handshake of a connection (srcp.rs, handle_srcp_handshake).  What is
\* written to the client is kept as the message handed to send_srcp_message,
\* which puts the time in front of it.
\* ------------------------------------------------------------------------
SET_PROTOCOL_SRCP == << "S", "E", "T", " ", "P", "R", "O", "T", "O", "C", "O", "L", " ", "S", "R", "C", "P" >>

\* str::starts_with
starts_with(line, anfang) ==
  Len(line) >= Len(anfang) /\ SubSeq(line, 1, Len(anfang)) = anfang

\* a connection that has not been accepted yet
HandshakeNew == [pc |-> "none", mode |-> "none", out |-> << >>, line |-> << >>]

\* the welcome message is written, the connection mode is awaited
HandshakeStart == [HandshakeNew EXCEPT !.pc = "mode", !.out = << "srcpd V; SRCP 0.8.4" >>]

\* mutation: a line that is not understood is passed over without a reply
handle_srcp_handshake_still(h, bytes, sid) ==
  LET line == read_line(bytes)
      h1 == [h EXCEPT !.line = bytes]
  IN  IF h.pc = "mode"
        THEN IF Text(line) = "SET CONNECTIONMODE SRCP COMMAND"
               THEN [h1 EXCEPT !.pc = "go", !.mode = "Command",
                               !.out = Append(@, "202 OK CONNECTIONMODE")]
             ELSE IF Text(line) = "SET CONNECTIONMODE SRCP INFO"
               THEN [h1 EXCEPT !.pc = "go", !.mode = "Info",
                               !.out = Append(@, "202 OK CONNECTIONMODE")]
             ELSE IF starts_with(line, SET_PROTOCOL_SRCP)
               THEN [h1 EXCEPT !.out = Append(@, "201 OK PROTOCOL SRCP")]
             ELSE h1
      ELSE IF Text(line) = "GO"
        THEN [h1 EXCEPT !.pc = "done", !.out = Append(@, "200 OK GO " \o to_string(sid))]
      ELSE [h1 EXCEPT !.pc = "err"]

\* handle_srcp_handshake from one read_line to the next: while the mode is
\* awaited every line is answered; while GO is awaited any other line ends
\* the handshake with Err, and handle_srcp_connection returns without
\* writing anything
handle_srcp_handshake(h, bytes, sid) ==
  LET line == read_line(bytes)
      h1 == [h EXCEPT !.line = bytes]
  IN  IF h.pc = "mode"
        THEN IF Text(line) = "SET CONNECTIONMODE SRCP COMMAND"
               THEN [h1 EXCEPT !.pc = "go", !.mode = "Command",
                               !.out = Append(@, "202 OK CONNECTIONMODE")]
             ELSE IF Text(line) = "SET CONNECTIONMODE SRCP INFO"
               THEN [h1 EXCEPT !.pc = "go", !.mode = "Info",
                               !.out = Append(@, "202 OK CONNECTIONMODE")]
             ELSE IF starts_with(line, SET_PROTOCOL_SRCP)
               THEN [h1 EXCEPT !.out = Append(@, "201 OK PROTOCOL SRCP")]
             ELSE [h1 EXCEPT !.out = Append(@, "401 ERROR unsupported connection mode")]
      ELSE IF Text(line) = "GO"
        THEN [h1 EXCEPT !.pc = "done", !.out = Append(@, "200 OK GO " \o to_string(sid))]
      ELSE [h1 EXCEPT !.pc = "err"]

\* ------------------------------------------------------------------------
\* Command line arguments (main.rs)
\* ------------------------------------------------------------------------
CARGO_PKG_NAME == "srcpd_rust"

CmdLineConfig(config_file, fork) ==
  [ok |-> TRUE, config_file |-> config_file, fork |-> fork, message |-> ""]
CmdLineErr(message) ==
  [ok |-> FALSE, config_file |-> "", fork |-> FALSE, message |-> message]

\* the loop of parse_cmd_line over the arguments that are left
RECURSIVE parse_args(_, _)
parse_args(args, cmd_line_config) ==
  IF args = << >> THEN cmd_line_config
  ELSE LET val == Head(args) IN
    CASE val = "-?" -> CmdLineErr("")
      [] val = "-n" -> parse_args(Tail(args), [cmd_line_config EXCEPT !.fork = FALSE])
      [] val = "-f" ->
           IF Tail(args) = << >> THEN CmdLineErr("-f ohne Configfile")
           ELSE parse_args(Tail(Tail(args)),
                           [cmd_line_config EXCEPT !.config_file = Head(Tail(args))])
      [] OTHER -> CmdLineErr("Unbekannter Parameter " \o val)

\* mutation: the program's own path is taken as an argument
parse_cmd_line_arg0(args) ==
  parse_args(args, CmdLineConfig("/etc/" \o CARGO_PKG_NAME \o ".conf", TRUE))

\* CmdLineConfig::parse_cmd_line: the first argument, the program's own
\* path, is skipped
parse_cmd_line(args) ==
  parse_args(IF args = << >> THEN << >> ELSE Tail(args),
             CmdLineConfig("/etc/" \o CARGO_PKG_NAME \o ".conf", TRUE))

\* ------------------------------------------------------------------------
\* Protocol registry (DDL::get_all_protocols with maerklin, dcc and mfx
\* enabled) and the address limits of the codecs
\* ------------------------------------------------------------------------
\* DdlProtokolle::from_str knows exactly these names
ProtokollNamen == {"M", "N", "X"}

all_protokolle == [M |-> {"1", "2", "3", "5"}, N |-> {"1", "2"}, X |-> {"0"}]

get_ga_max_adr(protokoll) ==
  CASE protokoll = "M" -> MAX_MM_GA_ADRESSE
    [] protokoll = "N" -> MAX_DCC_GA_ADRESSE
    [] OTHER -> 0

\* mutation: every protocol takes the whole MFX range
get_gl_max_adr_alle(protokoll, version) == MAX_MFX_GL_ADRESSE

get_gl_max_adr(protokoll, version) ==
  CASE protokoll = "M" -> MAX_MM_ADRESSE
    [] protokoll = "N" /\ version = "1" -> MAX_DCC_GL_ADRESSE_KURZ
    [] protokoll = "N" -> MAX_DCC_GL_ADRESSE_LANG
    [] OTHER -> MAX_MFX_GL_ADRESSE

\* only MFX needs a decoder UID
uid(protokoll) == protokoll = "X"

\* Result of the codec's get_ga_tel as DdlGA::send_ga uses it: TRUE when the
\* decoder switches the output off by itself after the given timeout.  The
\* codec sources carry an older get_ga_tel without this result; it is taken
\* from the specification: extended DCC accessory decoders handle it.
NoTimeout == -1

get_ga_tel(ga_init, timeout) ==
  /\ timeout # NoTimeout
  /\ ga_init.protokoll = "N"
  /\ ga_init.protokoll_version = "2"

\* ------------------------------------------------------------------------
\* Results of a handler call: new device state, messages sent on the info
\* channel tx, telegrams shipped on the SPI bus, and whether it panicked
\* ------------------------------------------------------------------------
Res(st, out, tel, panic) == [st |-> st, out |-> out, tel |-> tel, panic |-> panic]

\* Result of validate_cmd: the boolean, the messages sent, panicked or not
Val(ok, out, panic) == [ok |-> ok, out |-> out, panic |-> panic]

\* remove element i of a Vec
Remove(v, i) == SubSeq(v, 1, i - 1) \o SubSeq(v, i + 1, Len(v))

\* ------------------------------------------------------------------------
\* DdlPower (srcp_devices_ddl_power.rs)
\* ------------------------------------------------------------------------
\* length of the start and of the stop impulse in siggmode, in ms
DAUER_STOP_IMPULS_SIGG_MODE == 500
DAUER_START_IMPULS_SIGG_MODE == 750

\* DdlPower::new with siggmode off.  booster_war_ein is not a field of the
\* code: it records that the booster was seen on since the latest start
\* impulse
PowerNew(t) ==
  [power_on |-> FALSE, power_on_zeitpunkt |-> t, kein_shortcut |-> t,
   siggmode |-> FALSE, timeout_shortcut_power_off |-> 0, impuls_aus |-> t,
   sigg_mode_auto_power_on |-> None, booster_war_ein |-> FALSE]

\* DdlPower::new with siggmode on
PowerNewSigg(t, timeout_shortcut_power_off) ==
  [PowerNew(t) EXCEPT !.siggmode = TRUE,
                      !.timeout_shortcut_power_off = timeout_shortcut_power_off]

\* start_stop_impuls: the impulse ends after its length; a start impulse
\* sets the time from which an automatic attempt is allowed
start_stop_impuls(pw, power, t) ==
  IF power
    THEN [pw EXCEPT !.impuls_aus = t + DAUER_START_IMPULS_SIGG_MODE,
                    !.sigg_mode_auto_power_on =
                       IF pw.timeout_shortcut_power_off # 0
                         THEN t + pw.timeout_shortcut_power_off ELSE @,
                    !.booster_war_ein = FALSE]
    ELSE [pw EXCEPT !.impuls_aus = t + DAUER_STOP_IMPULS_SIGG_MODE]

power_send_all_info(pw, session_id) ==
  new_info(session_id, "POWER", << IF pw.power_on THEN "ON" ELSE "OFF" >>)

\* mutation: the new power state is taken over without a message
set_power_stumm(r, on, t) ==
  IF r.st.power_on # on
    THEN [r EXCEPT !.st.power_on = on,
                   !.st.power_on_zeitpunkt = IF on THEN t ELSE @]
    ELSE r

set_power(r, on, t) ==
  IF r.st.power_on # on
    THEN LET p1 == [r.st EXCEPT !.power_on = on]
             ps == IF p1.siggmode THEN start_stop_impuls(p1, on, t) ELSE p1
             p2 == IF on THEN [ps EXCEPT !.power_on_zeitpunkt = t] ELSE ps
         IN  [r EXCEPT !.st = p2, !.out = Append(@, power_send_all_info(p1, None))]
    ELSE r

power_validate_cmd(pw, cmd) ==
  LET cmd_get == cmd.code = "GET" IN
  IF /\ (cmd_get \/ cmd.code = "SET")
     /\ ((Len(cmd.par) > 0 /\ cmd.par[1] \in {"ON", "OFF"}) \/ cmd_get)
    THEN IF cmd_get
           THEN Val(TRUE, << power_send_all_info(pw, cmd.sid) >>, FALSE)
           ELSE Val(TRUE, << new_ok(cmd, "200") >>, FALSE)
    ELSE Val(FALSE, << new_err(cmd, "412", "wrong value") >>, FALSE)

power_execute_cmd(r, cmd, t) ==
  IF cmd.code = "SET"
    THEN IF Len(cmd.par) = 0 THEN [r EXCEPT !.panic = TRUE]
         ELSE set_power(r, cmd.par[1] = "ON", t)
    ELSE r

is_dev_spezifisch(pw, t) ==
  pw.power_on /\ pw.power_on_zeitpunkt + DELAY_POWER_ON_MELDUNG <= t

\* background step in siggmode, after the impulse has ended: the booster
\* state on the CTS input is taken over; a booster that is off while the
\* power should be on is started once more when the time for it has come
power_execute_sigg(r, booster_on, t) ==
  IF t > r.st.impuls_aus
    THEN LET auto == /\ r.st.sigg_mode_auto_power_on # None
                     /\ ~booster_on
                     /\ is_dev_spezifisch(r.st, t)
                     /\ r.st.sigg_mode_auto_power_on <= t
             st1 == IF auto THEN start_stop_impuls(r.st, TRUE, t)
                    ELSE [r.st EXCEPT !.booster_war_ein = @ \/ booster_on]
         IN  set_power([r EXCEPT !.st = st1], booster_on \/ auto, t)
    ELSE r

\* mutation: the power is switched off as soon as the booster has reported
\* off for shortcut_delay, not only after more than that
power_execute_ab(r, booster_on, shortcut_delay, t) ==
  IF r.st.siggmode THEN power_execute_sigg(r, booster_on, t)
  ELSE IF booster_on \/ ~r.st.power_on
    THEN [r EXCEPT !.st.kein_shortcut = t]
    ELSE IF t >= r.st.kein_shortcut + shortcut_delay
           THEN set_power(r, FALSE, t)
           ELSE r

\* background step: in siggmode see above, else short circuit supervision
\* on the DSR input
power_execute(r, booster_on, shortcut_delay, t) ==
  IF r.st.siggmode THEN power_execute_sigg(r, booster_on, t)
  ELSE IF booster_on \/ ~r.st.power_on
    THEN [r EXCEPT !.st.kein_shortcut = t]
    ELSE IF t > r.st.kein_shortcut + shortcut_delay
           THEN set_power(r, FALSE, t)
           ELSE r

\* ------------------------------------------------------------------------
\* DdlGA (srcp_devices_ddl_ga.rs)
\* ------------------------------------------------------------------------
GANew == [all_ga |-> << >>, all_ga_delay |-> << >>]

GAInit(protokoll, protokoll_version) ==
  [value |-> <<0, 0>>, protokoll |-> protokoll, protokoll_version |-> protokoll_version]

\* mutation: every entry is filed as a pending auto-off
GADelay_nur_aus(adr, port, grund, zeit) ==
  [adr |-> adr, port |-> port, grund |-> "Ausschalten", zeit |-> zeit]

GADelay(adr, port, grund, zeit) ==
  [adr |-> adr, port |-> port, grund |-> grund, zeit |-> zeit]

GaTel(adr, port, value) == [dev |-> "GA", adr |-> adr, port |-> port, value |-> value]

ga_validate_get_set(st, cmd, anz_parameter) ==
  IF Len(cmd.par) >= anz_parameter
    THEN IF ParseOk(cmd.par[1])
           THEN IF Parse(cmd.par[1]) \in DOMAIN st.all_ga
                  THEN IF ParseOk(cmd.par[2])
                         THEN IF Parse(cmd.par[2]) < 2
                                THEN Val(TRUE, << >>, FALSE)
                                ELSE Val(FALSE, << new_err(cmd, "412", "wrong value") >>, FALSE)
                         ELSE Val(FALSE, << new_err(cmd, "416", "no data") >>, FALSE)
                  ELSE Val(FALSE, << new_err(cmd, "416", "no data") >>, FALSE)
           ELSE Val(FALSE, << new_err(cmd, "412", "wrong value") >>, FALSE)
    ELSE Val(FALSE, << new_err(cmd, "419", "list too short") >>, FALSE)

ga_send_info_msg(session_id, adr, port, value) ==
  new_info(session_id, "GA", << to_string(adr), to_string(port), to_string(value) >>)

send_ga(r, adr, port, value) ==
  IF r.panic THEN r
  ELSE IF adr \notin DOMAIN r.st.all_ga THEN [r EXCEPT !.panic = TRUE]
  ELSE [r EXCEPT !.st.all_ga[adr].value[port + 1] = value,
                 !.tel = Append(@, GaTel(adr, port, value)),
                 !.out = Append(@, ga_send_info_msg(None, adr, port, value))]

\* mutation: a pending auto-off is never seen
is_dekoder_aktiv_nie(all_ga_delay, ga_adr) == FALSE

is_dekoder_aktiv(all_ga_delay, ga_adr) ==
  \E i \in 1..Len(all_ga_delay) :
     /\ all_ga_delay[i].grund = "Ausschalten"
     /\ (ga_adr - 1) \div 4 = (all_ga_delay[i].adr - 1) \div 4

set_ga_on_timeout(r, adr, port, timeout, t) ==
  LET r1 == send_ga(r, adr, port, 1) IN
  IF r1.panic THEN r1
  ELSE IF get_ga_tel(r1.st.all_ga[adr], timeout) THEN r1
  ELSE [r1 EXCEPT !.st.all_ga_delay =
                     Append(@, GADelay(adr, port, "Ausschalten", t + timeout))]

ga_validate_cmd(st, cmd) ==
  CASE cmd.code = "INIT" ->
         IF Len(cmd.par) >= 2
           THEN IF cmd.par[2] \in ProtokollNamen
                  THEN LET prot_version == IF Len(cmd.par) >= 3 THEN cmd.par[3] ELSE "1" IN
                       IF prot_version # "1" /\ prot_version # "2"
                         THEN Val(FALSE, << new_err(cmd, "412", "wrong value") >>, FALSE)
                         ELSE IF prot_version \notin all_protokolle[cmd.par[2]]
                                THEN Val(FALSE, << >>, TRUE)
                                ELSE IF ParseOk(cmd.par[1])
                                       THEN IF /\ Parse(cmd.par[1]) > 0
                                               /\ Parse(cmd.par[1]) <= get_ga_max_adr(cmd.par[2])
                                              THEN Val(TRUE, << new_ok(cmd, "200") >>, FALSE)
                                              ELSE Val(FALSE, << new_err(cmd, "412", "wrong value") >>, FALSE)
                                       ELSE Val(FALSE, << new_err(cmd, "412", "wrong value") >>, FALSE)
                  ELSE Val(FALSE, << new_err(cmd, "420", "unsupported device protocol") >>, FALSE)
           ELSE Val(FALSE, << new_err(cmd, "419", "list too short") >>, FALSE)
    [] cmd.code = "TERM" ->
         IF Len(cmd.par) = 0
           THEN Val(FALSE, << >>, TRUE)
           ELSE IF ParseOk(cmd.par[1]) /\ Parse(cmd.par[1]) \in DOMAIN st.all_ga
                  THEN Val(TRUE, << new_ok(cmd, "200") >>, FALSE)
                  ELSE Val(FALSE, << new_err(cmd, "412", "wrong value") >>, FALSE)
    [] cmd.code = "GET" -> ga_validate_get_set(st, cmd, 2)
    [] cmd.code = "SET" ->
         LET v == ga_validate_get_set(st, cmd, 4) IN
         IF v.ok
           THEN IF /\ ParseOk(cmd.par[3]) /\ Parse(cmd.par[3]) <= 255
                   /\ (ParseOk(cmd.par[4]) \/ cmd.par[4] = "-1")
                  THEN Val(TRUE, << new_ok(cmd, "200") >>, FALSE)
                  ELSE Val(FALSE, << new_err(cmd, "412", "wrong value") >>, FALSE)
           ELSE v
    [] OTHER -> Val(FALSE, << new_err(cmd, "423", "unsupported operation") >>, FALSE)

\* str::parse::<i32>() of the <time> parameter: "-1" is the only negative
\* number among the tokens
ParseI32(s) == IF s = "-1" THEN -1 ELSE Parse(s)

ga_execute_cmd(r, cmd, t) ==
  CASE cmd.code = "INIT" ->
         LET adr == Parse(cmd.par[1])
             neu == GAInit(cmd.par[2], IF Len(cmd.par) >= 3 THEN cmd.par[3] ELSE "none")
         IN  [r EXCEPT !.st.all_ga =
                          [a \in DOMAIN r.st.all_ga \cup {adr} |->
                             IF a = adr THEN neu ELSE r.st.all_ga[a]],
                       !.out = Append(@, new_info(None, cmd.dev, cmd.par))]
    [] cmd.code = "TERM" ->
         [r EXCEPT !.st.all_ga =
                      [a \in DOMAIN r.st.all_ga \ {Parse(cmd.par[1])} |-> r.st.all_ga[a]]]
    [] cmd.code = "GET" ->
         LET adr == Parse(cmd.par[1])
             port == Parse(cmd.par[2])
         IN  [r EXCEPT !.out = Append(@, ga_send_info_msg(cmd.sid, adr, port,
                                                          r.st.all_ga[adr].value[port + 1]))]
    [] cmd.code = "SET" ->
         LET adr == Parse(cmd.par[1]) IN
         IF adr \in DOMAIN r.st.all_ga
           THEN LET port == Parse(cmd.par[2])
                    value == Parse(cmd.par[3])
                    switch_off_timeout == ParseI32(cmd.par[4])
                IN  IF value # 0 /\ switch_off_timeout > 0
                      THEN IF is_dekoder_aktiv(r.st.all_ga_delay, adr)
                             THEN [r EXCEPT !.st.all_ga_delay =
                                     Append(@, GADelay(adr, port, "Einschalten",
                                                      switch_off_timeout))]
                             ELSE set_ga_on_timeout(r, adr, port, switch_off_timeout, t)
                      ELSE send_ga(r, adr, port, value)
           ELSE r
    [] OTHER -> r

\* HashMap iteration is taken in ascending address order
RECURSIVE ga_send_all_info(_, _, _)
ga_send_all_info(st, session_id, adrs) ==
  IF adrs = {} THEN << >>
  ELSE LET adr == CHOOSE a \in adrs : \A b \in adrs : a <= b IN
       << ga_send_info_msg(session_id, adr, 0, st.all_ga[adr].value[1]),
          ga_send_info_msg(session_id, adr, 1, st.all_ga[adr].value[2]) >>
       \o ga_send_all_info(st, session_id, adrs \ {adr})

\* the while loop of DdlGA::execute from index i (1-based) on
RECURSIVE ga_execute_loop(_, _, _)
ga_execute_loop(r, i, t) ==
  IF r.panic \/ i > Len(r.st.all_ga_delay) THEN r
  ELSE LET ga_delay == r.st.all_ga_delay[i] IN
       IF ga_delay.grund = "Einschalten"
         THEN IF ~is_dekoder_aktiv(r.st.all_ga_delay, ga_delay.adr)
                THEN LET r1 == set_ga_on_timeout(r, ga_delay.adr, ga_delay.port,
                                                 ga_delay.zeit, t)
                     IN  IF r1.panic THEN r1
                         ELSE ga_execute_loop(
                                [r1 EXCEPT !.st.all_ga_delay = Remove(@, i)], i, t)
                ELSE ga_execute_loop(r, i + 1, t)
         ELSE IF t > ga_delay.zeit
                THEN LET r1 == send_ga(r, ga_delay.adr, ga_delay.port, 0)
                     IN  IF r1.panic THEN r1
                         ELSE ga_execute_loop(
                                [r1 EXCEPT !.st.all_ga_delay = Remove(@, i)], i, t)
                ELSE ga_execute_loop(r, i + 1, t)

ga_execute(r, power, t) == IF power THEN ga_execute_loop(r, 1, t) ELSE r

\* ------------------------------------------------------------------------
\* Maerklin Motorola codec (srcp_protocol_ddl_mm.rs): the address part of a
\* telegram, as the SPI bytes of its four trits
\* ------------------------------------------------------------------------
\* the trits 00, 11 and 10, two bytes for every bit
MM_BIT_L == << 192, 0, 192, 0 >>
MM_BIT_H == << 255, 252, 255, 252 >>
MM_BIT_O == << 255, 252, 192, 0 >>
\* the trits 00 and 10 with the wider pulse for accessory decoders
MM_BIT_L_GA == << 224, 0, 224, 0 >>
MM_BIT_O_GA == << 255, 252, 224, 0 >>

\* the loop of add_mm_adr: n trits of adr_dekoder, the lowest first
RECURSIVE mm_adr_trits(_, _, _)
mm_adr_trits(adr_dekoder, ga_timing, n) ==
  IF n = 0 THEN << >>
  ELSE (CASE adr_dekoder % 3 = 0 -> IF ga_timing THEN MM_BIT_L_GA ELSE MM_BIT_L
          [] adr_dekoder % 3 = 1 -> MM_BIT_H
          [] OTHER -> IF ga_timing THEN MM_BIT_O_GA ELSE MM_BIT_O)
       \o mm_adr_trits(adr_dekoder \div 3, ga_timing, n - 1)

\* mutation: address 80 is sent as it is
add_mm_adr_direkt(adr_dekoder, ga_timing) == mm_adr_trits(adr_dekoder, ga_timing, 4)

\* add_mm_adr: address 80 is sent as address 0 (the assert adr_dekoder < 81
\* holds for every address that passed INIT)
add_mm_adr(adr_dekoder, ga_timing) ==
  mm_adr_trits(IF adr_dekoder = MAX_MM_ADRESSE THEN 0 ELSE adr_dekoder, ga_timing, 4)

\* get_idle_tel of MM: the address part of the idle telegram
mm_idle_adr == MM_BIT_O \o MM_BIT_O \o MM_BIT_O \o MM_BIT_O

\* ------------------------------------------------------------------------
\* DdlGL (srcp_devices_ddl_gl.rs).  The SPI transfer is reduced to the list
\* of the frames handed to it; the frames that have to wait for their delay
\* are kept in tel_buffer.
\* ------------------------------------------------------------------------
GLNew == [all_gl |-> << >>, adr_refresh |-> 0, all_idle_protokolle |-> <<"M", "N", "X">>,
          tel_buffer |-> << >>]

\* fnkt is the set of the function numbers whose bit is set
GLInit(protokoll, protokoll_version, protokoll_speedsteps, protokoll_number_functions, param) ==
  [direction |-> "1", speed |-> 0, fnkt |-> {},
   protokoll |-> protokoll, protokoll_version |-> protokoll_version,
   protokoll_speedsteps |-> protokoll_speedsteps,
   protokoll_number_functions |-> protokoll_number_functions,
   param |-> param]

\* a locomotive telegram; adr_daten is the address part of its data for a
\* locomotive of the protocol M, and empty for the other protocols
GlTel(adr, refresh, doppelt, protokoll) ==
  [dev |-> "GL", adr |-> adr, port |-> IF refresh THEN 1 ELSE 0,
   value |-> IF doppelt THEN 2 ELSE 1,
   adr_daten |-> IF protokoll = "M" THEN add_mm_adr(adr, FALSE) ELSE << >>]

\* get_idle_tel of a protocol
IdleTel(protokoll) ==
  [dev |-> protokoll, adr |-> 0, port |-> 0, value |-> 0,
   adr_daten |-> IF protokoll = "M" THEN mm_idle_adr ELSE << >>]

count_protokoll(st, protokoll) ==
  Cardinality({a \in DOMAIN st.all_gl : st.all_gl[a].protokoll = protokoll})

gl_validate_get_set(st, cmd, anz_parameter) ==
  IF Len(cmd.par) >= anz_parameter
    THEN IF ParseOk(cmd.par[1])
           THEN IF Parse(cmd.par[1]) \in DOMAIN st.all_gl
                  THEN Val(TRUE, << >>, FALSE)
                  ELSE Val(FALSE, << new_err(cmd, "416", "no data") >>, FALSE)
           ELSE Val(FALSE, << new_err(cmd, "412", "wrong value") >>, FALSE)
    ELSE Val(FALSE, << new_err(cmd, "419", "list too short") >>, FALSE)

\* the build of the program: arithmetic overflow panics (overflow checks
\* on, the dev profile) or wraps (overflow checks off, the release profile)
VARIABLE overflow_checks

\* width of GLInit.fnkt, a u64
FNKT_BITS == 64

\* send_info_msg panics at `1 << i` for a function number i beyond the
\* width of fnkt
gl_send_info_msg_panic(st, adr) ==
  /\ overflow_checks
  /\ adr \in DOMAIN st.all_gl
  /\ st.all_gl[adr].protokoll_number_functions > FNKT_BITS

\* without overflow checks the shift count is taken modulo the width
gl_send_info_msg(st, session_id, adr) ==
  IF adr \notin DOMAIN st.all_gl THEN << >>
  ELSE LET gl == st.all_gl[adr] IN
       << new_info(session_id, "GL",
                   << to_string(adr), gl.direction, to_string(gl.speed),
                      to_string(gl.protokoll_speedsteps) >>
                   \o [i \in 1..gl.protokoll_number_functions |->
                         IF ((i - 1) % FNKT_BITS) \in gl.fnkt THEN "1" ELSE "0"]) >>

\* Instant::now() in ms
VARIABLE now

\* from this number of locomotives on a telegram does not wait for its
\* delay, its later frames go to the buffer
MIN_ANZ_GL_NO_DELAY == 15
\* delay between two DCC frames to the same address, in ms
DCC_DELAY_GLEICHE_ADR == 4
\* delay between the two frames of a MM5 speed telegram, in ms
MM_PAUSE_MM5 == 50
SPEED_STEP_4BIT == 14

\* the frames of a telegram that are left after the first one: their
\* number and the delay they ask for.  daten counts a frame that waits for
\* a delay; frames that follow without delay count as one with the frame
\* before them
DdlRest(adr, daten, delay, delay_only2nd) ==
  [adr |-> adr, daten |-> daten, delay |-> delay, delay_only2nd |-> delay_only2nd,
   instant_next |-> 0]

\* get_gl_basis_tel of the codecs: DCC puts F0..F4 into a second frame,
\* MM5 sends a moving locomotive's speed as two frames 50 ms apart; the
\* other telegrams have no delay.  (get_gl_zusatz_tel of DCC adds frames
\* for a locomotive with more than 5 functions only.)
gl_rest(gl, adr) ==
  CASE gl.protokoll = "N" ->
         DdlRest(adr,
                 IF \/ gl.protokoll_number_functions > 0 /\ gl.protokoll_speedsteps > SPEED_STEP_4BIT
                    \/ gl.protokoll_number_functions > 1 /\ gl.protokoll_speedsteps <= SPEED_STEP_4BIT
                   THEN 1 ELSE 0,
                 DCC_DELAY_GLEICHE_ADR, FALSE)
    [] gl.protokoll = "M" /\ gl.protokoll_version = "5" /\ gl.speed > 0 /\ gl.direction # "2" ->
         DdlRest(adr, 1, MM_PAUSE_MM5, TRUE)
    [] OTHER -> DdlRest(adr, 0, 0, FALSE)

\* a later frame of a locomotive telegram that is sent from the buffer
BufTel(adr) == [dev |-> "GL", adr |-> adr, port |-> 2, value |-> 1, adr_daten |-> << >>]

\* SRCPDeviceDDL::send for a buffered telegram: the frame is taken out and
\* the time of the next one is set
send(ddl_tel) ==
  [ddl_tel EXCEPT !.daten = @ - 1, !.instant_next = now + ddl_tel.delay]

\* send_buffer: every telegram whose time has come sends a frame, empty
\* telegrams leave the buffer, until a pass sends nothing
RECURSIVE send_buffer(_)
send_buffer(r) ==
  LET buf == r.st.tel_buffer
      faellig == {i \in 1..Len(buf) : buf[i].instant_next <= now}
      gesendet == [i \in 1..Len(buf) |-> IF i \in faellig THEN send(buf[i]) ELSE buf[i]]
      frames == [i \in 1..Len(SelectSeq(buf, LAMBDA t : t.instant_next <= now)) |->
                   BufTel(SelectSeq(buf, LAMBDA t : t.instant_next <= now)[i].adr)]
  IN  IF faellig = {} THEN r
      ELSE send_buffer([r EXCEPT !.st.tel_buffer = SelectSeq(gesendet, LAMBDA t : t.daten > 0),
                                 !.tel = @ \o frames])

\* mutation: a telegram with a delay always goes to the buffer, however
\* many locomotives there are
send_tel_immer(r, ddl_tel) ==
  send_buffer(IF ddl_tel.daten > 0 /\ ddl_tel.delay > 0
                THEN [r EXCEPT !.st.tel_buffer =
                        Append(@, [ddl_tel EXCEPT !.instant_next = now + ddl_tel.delay,
                                                  !.delay = IF ddl_tel.delay_only2nd THEN 0 ELSE @])]
                ELSE r)

\* send_tel after the first frame is sent: with fewer than
\* MIN_ANZ_GL_NO_DELAY locomotives, or without delay, the other frames
\* follow at once; else what is left goes to the buffer
send_tel(r, ddl_tel) ==
  send_buffer(IF /\ ddl_tel.daten > 0
                 /\ ~(Cardinality(DOMAIN r.st.all_gl) < MIN_ANZ_GL_NO_DELAY \/ ddl_tel.delay = 0)
                THEN [r EXCEPT !.st.tel_buffer =
                        Append(@, [ddl_tel EXCEPT !.instant_next = now + ddl_tel.delay,
                                                  !.delay = IF ddl_tel.delay_only2nd THEN 0 ELSE @])]
                ELSE r)

send_gl_tel(r, adr, doppelt, refresh) ==
  IF r.panic THEN r
  ELSE IF adr \notin DOMAIN r.st.all_gl THEN [r EXCEPT !.panic = TRUE]
  \* get_gl_basis_tel of DCC: assert!(speed <= speed_steps)
  ELSE IF /\ r.st.all_gl[adr].protokoll = "N"
          /\ r.st.all_gl[adr].speed > r.st.all_gl[adr].protokoll_speedsteps
         THEN [r EXCEPT !.panic = TRUE]
  ELSE send_tel([r EXCEPT !.tel = Append(@, GlTel(adr, refresh, doppelt,
                                                  r.st.all_gl[adr].protokoll))],
                gl_rest(r.st.all_gl[adr], adr))

send_gl(r, adr, drivemode, v, v_max, funktionen, refresh) ==
  IF adr \notin DOMAIN r.st.all_gl THEN [r EXCEPT !.panic = TRUE]
  ELSE LET gl == r.st.all_gl[adr]
           speed == (gl.protokoll_speedsteps * v) \div v_max
           doppelt == gl.speed > 0 /\ speed = 0
           r1 == [r EXCEPT !.st.all_gl[adr].direction = drivemode,
                           !.st.all_gl[adr].speed = speed,
                           !.st.all_gl[adr].fnkt = funktionen]
           r2 == send_gl_tel(r1, adr, doppelt, refresh)
       IN  IF r2.panic \/ gl_send_info_msg_panic(r2.st, adr)
             THEN [r2 EXCEPT !.panic = TRUE]
             ELSE [r2 EXCEPT !.out = @ \o gl_send_info_msg(r2.st, None, adr)]

\* the 412 errors of the function parameters of SET GL: one for every
\* parameter that is neither "0" nor "1"
RECURSIVE gl_fnkt_errors(_, _)
gl_fnkt_errors(cmd, i) ==
  IF i > Len(cmd.par) THEN << >>
  ELSE (IF cmd.par[i] # "0" /\ cmd.par[i] # "1"
          THEN << new_err(cmd, "412", "wrong value") >> ELSE << >>)
       \o gl_fnkt_errors(cmd, i + 1)

gl_validate_cmd(st, cmd) ==
  CASE cmd.code = "INIT" ->
         IF Len(cmd.par) >= 5
           THEN IF /\ cmd.par[2] \in ProtokollNamen
                   /\ cmd.par[3] \in all_protokolle[cmd.par[2]]
                  THEN IF uid(cmd.par[2]) /\ Len(cmd.par) < 6
                         THEN Val(FALSE, << new_err(cmd, "419", "list too short") >>, FALSE)
                         ELSE IF /\ ParseOk(cmd.par[1])
                                 /\ Parse(cmd.par[1]) > 0
                                 /\ Parse(cmd.par[1]) <= get_gl_max_adr(cmd.par[2], cmd.par[3])
                                THEN IF \A i \in 4..Len(cmd.par) : i = 7 \/ ParseOk(cmd.par[i])
                                       THEN Val(TRUE, << >>, FALSE)
                                       ELSE Val(FALSE, << new_err(cmd, "412", "wrong value") >>, FALSE)
                                ELSE Val(FALSE, << new_err(cmd, "412", "wrong value") >>, FALSE)
                  ELSE Val(FALSE, << new_err(cmd, "420", "unsupported device protocol") >>, FALSE)
           ELSE Val(FALSE, << new_err(cmd, "419", "list too short") >>, FALSE)
    [] cmd.code = "TERM" ->
         IF Len(cmd.par) = 0
           THEN Val(FALSE, << >>, TRUE)
           ELSE IF ParseOk(cmd.par[1]) /\ Parse(cmd.par[1]) \in DOMAIN st.all_gl
                  THEN Val(TRUE, << new_ok(cmd, "200") >>, FALSE)
                  ELSE Val(FALSE, << new_err(cmd, "412", "wrong value") >>, FALSE)
    [] cmd.code = "GET" -> gl_validate_get_set(st, cmd, 1)
    [] cmd.code = "SET" ->
         LET v == gl_validate_get_set(st, cmd, 4) IN
         IF v.ok
           THEN IF /\ cmd.par[2] \in {"0", "1", "2"}
                   /\ ParseOk(cmd.par[3]) /\ Parse(cmd.par[3]) <= 255
                   /\ ParseOk(cmd.par[4]) /\ Parse(cmd.par[4]) <= 255
                   /\ Parse(cmd.par[4]) > 0
                  THEN LET errs == gl_fnkt_errors(cmd, 5) IN
                       IF errs = << >>
                         THEN Val(TRUE, << new_ok(cmd, "200") >>, FALSE)
                         ELSE Val(FALSE, errs, FALSE)
                  ELSE Val(FALSE, << new_err(cmd, "412", "wrong value") >>, FALSE)
           ELSE v
    \* DdlGL::validate_cmd has no arm for VERIFY: no client of the model
    \* sends VERIFY to GL
    [] OTHER -> Val(FALSE, << >>, FALSE)

gl_execute_cmd(r, cmd) ==
  CASE cmd.code = "INIT" ->
         LET adr == Parse(cmd.par[1])
             protokoll == cmd.par[2]
             neu == GLInit(protokoll, cmd.par[3], Parse(cmd.par[4]), Parse(cmd.par[5]),
                           SubSeq(cmd.par, 6, Len(cmd.par)))
             st1 == [r.st EXCEPT !.all_gl =
                       [a \in DOMAIN r.st.all_gl \cup {adr} |->
                          IF a = adr THEN neu ELSE r.st.all_gl[a]]]
             \* srcp_info_new_gl
             info == new_info(None, "GL",
                              << to_string(adr), neu.protokoll, neu.protokoll_version,
                                 to_string(neu.protokoll_speedsteps),
                                 to_string(neu.protokoll_number_functions) >> \o neu.param)
             nicht_idle == IF protokoll \in {"M", "N"}
                             THEN count_protokoll(st1, protokoll) >= IDLE_COUNT_MM_DCC
                             ELSE TRUE
             st2 == IF nicht_idle
                      THEN [st1 EXCEPT !.all_idle_protokolle =
                              SelectSeq(@, LAMBDA p : p # protokoll)]
                      ELSE st1
         IN  [r EXCEPT !.st = st2, !.out = @ \o << info, new_ok(cmd, "200") >>]
    [] cmd.code = "TERM" ->
         LET adr == Parse(cmd.par[1]) IN
         IF adr \notin DOMAIN r.st.all_gl THEN [r EXCEPT !.panic = TRUE]
         ELSE LET protokoll == r.st.all_gl[adr].protokoll
                  st1 == [r.st EXCEPT !.all_gl =
                            [a \in DOMAIN r.st.all_gl \ {adr} |-> r.st.all_gl[a]]]
                  prot_count == count_protokoll(st1, protokoll)
                  idle == \/ prot_count = 0
                          \/ protokoll \in {"M", "N"} /\ prot_count < IDLE_COUNT_MM_DCC
                  schon == \E i \in 1..Len(st1.all_idle_protokolle) :
                              st1.all_idle_protokolle[i] = protokoll
              IN  IF idle /\ ~schon
                    THEN [r EXCEPT !.st = [st1 EXCEPT !.all_idle_protokolle =
                                                        Append(@, protokoll)]]
                    ELSE [r EXCEPT !.st = st1]
    [] cmd.code = "GET" ->
         IF gl_send_info_msg_panic(r.st, Parse(cmd.par[1]))
           THEN [r EXCEPT !.panic = TRUE]
           ELSE [r EXCEPT !.out = @ \o gl_send_info_msg(r.st, cmd.sid, Parse(cmd.par[1]))]
    [] cmd.code = "SET" ->
         LET adr == Parse(cmd.par[1])
             \* the parameters f0.. that are "1", by function number
             gesetzt == {i - 5 : i \in {j \in 5..Len(cmd.par) : cmd.par[j] = "1"}}
         IN
         IF adr \in DOMAIN r.st.all_gl
           THEN IF overflow_checks /\ \E f \in gesetzt : f >= FNKT_BITS
                  THEN [r EXCEPT !.panic = TRUE]
                  ELSE send_gl(r, adr, cmd.par[2], Parse(cmd.par[3]), Parse(cmd.par[4]),
                               {f % FNKT_BITS : f \in gesetzt}, FALSE)
           ELSE r
    [] OTHER -> r

\* the addresses of a HashMap in the order of iteration: ascending
RECURSIVE Sorted(_)
Sorted(adrs) ==
  IF adrs = {} THEN << >>
  ELSE LET adr == CHOOSE a \in adrs : \A b \in adrs : a <= b IN
       << adr >> \o Sorted(adrs \ {adr})

\* the for loop of DdlGL::send_refresh: the next refresh address
RECURSIVE next_adr_refresh(_, _, _)
next_adr_refresh(adrs, i, adr_refresh) ==
  IF i > Len(adrs) THEN adr_refresh
  ELSE IF adr_refresh = 0 THEN adrs[i]
  ELSE IF adrs[i] = adr_refresh THEN next_adr_refresh(adrs, i + 1, 0)
  ELSE next_adr_refresh(adrs, i + 1, adr_refresh)

send_refresh(r) ==
  LET adr == next_adr_refresh(Sorted(DOMAIN r.st.all_gl), 1, r.st.adr_refresh)
      r1 == [r EXCEPT !.st.adr_refresh = adr]
  IN  IF adr = 0
        THEN LET r2 == [r1 EXCEPT !.tel = @ \o [i \in 1..Len(r.st.all_idle_protokolle) |->
                                                   IdleTel(r.st.all_idle_protokolle[i])]]
             \* send_tel of every idle telegram ends with send_buffer
             IN  IF r.st.all_idle_protokolle = << >> THEN r2 ELSE send_buffer(r2)
        ELSE send_gl_tel(r1, adr, FALSE, TRUE)

RECURSIVE gl_send_all_info(_, _, _)
gl_send_all_info(st, session_id, adrs) ==
  IF Len(adrs) = 0 \/ gl_send_info_msg_panic(st, Head(adrs)) THEN << >>
  ELSE gl_send_info_msg(st, session_id, Head(adrs))
       \o gl_send_all_info(st, session_id, Tail(adrs))

\* Background step of the GL device.  The DdlGL::execute that matches the
\* scheduler (it returns whether a telegram was sent) is not part of the
\* sources; by the specification it asks every codec for its background
\* telegrams.  MFX discovery and the central UID broadcast touch no state
\* of this model; the CV telegrams of the DCC codecs are
\* get_protokoll_telegrammme below.
gl_execute(r, power) == r

\* ------------------------------------------------------------------------
\* DdlSM (srcp_devices_ddl_sm.rs)
\* ------------------------------------------------------------------------
\* sm_protokoll: << >> is None, else << protocol, version >>;
\* jobs: the SmReadWrite records on the way to the helper task of a codec
\*   (tx_to_prog of DCC, tx_to_rds of MFX);
\* antworten: the helpers' answers on the way back to the codecs
\*   (rx_from_prog_read_write_cv, rx_from_rds_read_write_ca);
\* cv_tel: the DccCvTel records on the way from a DccProgThread to its
\*   codec (rx_tel_from_prog).
\* Every entry carries the codec << protocol, version >> whose channel it is in.
SMNew == [sm_protokoll |-> << >>, jobs |-> << >>, antworten |-> << >>, cv_tel |-> << >>]

gl_ga_prot_names == [NMRA |-> <<"N", "2">>, MFX |-> <<"X", "0">>]

DCC_SM_TYPE_CV == "CV"

DCC_SM_TYPE_CVBIT == "CVBIT"

\* sm_get_all_types of the codecs: type -> number of parameters
sm_get_all_types(protokoll) ==
  IF protokoll = "N" THEN [CV |-> 1, CVBIT |-> 2] ELSE [CAMFX |-> 4]

\* mutation: an INIT is let through while a session is active
sm_validate_cmd_offen(st, cmd) ==
  IF cmd.code = "INIT" /\ Len(cmd.par) >= 1 /\ cmd.par[1] \in DOMAIN gl_ga_prot_names
    THEN Val(TRUE, << >>, FALSE)
  ELSE Val(FALSE, << new_err(cmd, "419", "list too short") >>, FALSE)

sm_validate_cmd(st, cmd) ==
  CASE cmd.code = "INIT" ->
         IF Len(cmd.par) >= 1
           THEN IF cmd.par[1] \in DOMAIN gl_ga_prot_names
                  THEN IF st.sm_protokoll = << >>
                         THEN Val(TRUE, << >>, FALSE)
                         ELSE Val(FALSE, << new_err(cmd, "415", "forbidden") >>, FALSE)
                  ELSE Val(FALSE, << new_err(cmd, "412", "wrong value") >>, FALSE)
           ELSE Val(FALSE, << new_err(cmd, "420", "unsupported device protocol") >>, FALSE)
    [] cmd.code = "TERM" ->
         IF st.sm_protokoll # << >>
           THEN Val(TRUE, << >>, FALSE)
           ELSE Val(FALSE, << new_err(cmd, "412", "wrong value") >>, FALSE)
    [] OTHER ->
         IF st.sm_protokoll # << >>
           THEN IF Len(cmd.par) > 2
                  THEN LET types == sm_get_all_types(st.sm_protokoll[1]) IN
                       IF cmd.par[2] \in DOMAIN types
                         THEN IF Len(cmd.par) = 2 + types[cmd.par[2]]
                                                + (IF cmd.code = "GET" THEN 0 ELSE 1)
                                THEN IF \A i \in 1..Len(cmd.par) : i = 2 \/ ParseOk(cmd.par[i])
                                       THEN Val(TRUE, << >>, FALSE)
                                       ELSE Val(FALSE, << new_err(cmd, "412", "wrong value") >>, FALSE)
                                ELSE Val(FALSE, << new_err(cmd, "419", "list too short") >>, FALSE)
                         ELSE Val(FALSE, << new_err(cmd, "412", "wrong value") >>, FALSE)
                  ELSE Val(FALSE, << new_err(cmd, "419", "list too short") >>, FALSE)
           ELSE Val(FALSE, << new_err(cmd, "420", "unsupported device protocol") >>, FALSE)

\* the SmReadWrite record execute_cmd hands to sm_read_write of the codec
SmReadWrite(codec, cmd, power) ==
  LET n == Len(cmd.par)
      letzter == IF cmd.code = "GET" THEN n ELSE n - 1
  IN  [codec |-> codec,
       adr |-> get_adr(cmd),
       prog_gleis |-> ~power,
       sm_type |-> cmd.par[2],
       para |-> [i \in 1..(letzter - 2) |-> Parse(cmd.par[i + 2])],
       val |-> CASE cmd.code = "GET" -> [typ |-> "Read", v |-> 0]
                 [] cmd.code = "SET" -> [typ |-> "Write", v |-> Parse(cmd.par[n])]
                 [] OTHER -> [typ |-> "Verify", v |-> Parse(cmd.par[n])],
       session_id |-> cmd.sid]

sm_execute_cmd(r, cmd, power) ==
  CASE cmd.code = "INIT" ->
         LET prot == gl_ga_prot_names[cmd.par[1]]
             prot_ver == IF Len(cmd.par) > 1 THEN cmd.par[2] ELSE prot[2]
         IN  IF prot_ver \notin all_protokolle[prot[1]]
               THEN [r EXCEPT !.st.sm_protokoll = << prot[1], prot_ver >>, !.panic = TRUE]
               ELSE [r EXCEPT !.st.sm_protokoll = << prot[1], prot_ver >>,
                              !.out = Append(@, new_ok(cmd, "200"))]
    [] cmd.code = "TERM" ->
         [r EXCEPT !.st.sm_protokoll = << >>, !.out = Append(@, new_ok(cmd, "200"))]
    [] OTHER ->
         [r EXCEPT !.st.jobs = Append(@, SmReadWrite(r.st.sm_protokoll, cmd, power))]

\* the index of the first entry of the channels q that is in the channel
\* of the codec (0: none), searched from index i on
RECURSIVE ErsterVon(_, _, _)
ErsterVon(q, codec, i) ==
  IF i > Len(q) THEN 0
  ELSE IF q[i].codec = codec THEN i
  ELSE ErsterVon(q, codec, i + 1)

\* DdlSM::execute: the SRCP message for an answer of a helper
sm_message(ans) ==
  LET srcp_para == << to_string(ans.adr), ans.sm_type >>
                   \o [i \in 1..Len(ans.para) |-> to_string(ans.para[i])]
  IN  IF ans.val.typ = "ResultOk"
        THEN [kind |-> "OK", sid |-> ans.session_id, bus |-> BusNr, code |-> "200",
              text |-> "", dev |-> "SM", par |-> Append(srcp_para, to_string(ans.val.v))]
        ELSE [kind |-> "ERROR", sid |-> ans.session_id, bus |-> BusNr, code |-> "412",
              text |-> "wrong value", dev |-> "SM", par |-> srcp_para]

\* the codecs with a helper task, in the two orders the background loops
\* are taken to visit them in (the order of a HashMap is not fixed)
SmCodecs == << <<"N", "1">>, <<"N", "2">>, <<"X", "0">> >>

Reihenfolgen == { SmCodecs, << SmCodecs[3], SmCodecs[2], SmCodecs[1] >> }

\* the indices of the first entry of every codec in the channels q, in
\* the order of the codecs
Erste(q, codecs) ==
  SelectSeq([k \in 1..Len(codecs) |-> ErsterVon(q, codecs[k], 1)], LAMBDA i : i # 0)

\* the channels q after the entries at the indices idx were received
Ohne(q, idx) ==
  LET keep == {j \in 1..Len(q) : \A k \in 1..Len(idx) : idx[k] # j}
  IN  [k \in 1..Cardinality(keep) |->
         q[CHOOSE j \in keep : Cardinality({x \in keep : x <= j}) = k]]

\* background step: sm_get_answer of every codec, an answer is sent back
\* as SRCP message
sm_execute(r, codecs) ==
  LET idx == Erste(r.st.antworten, codecs)
  IN  [r EXCEPT !.st.antworten = Ohne(@, idx),
                !.out = @ \o [k \in 1..Len(idx) |-> sm_message(r.st.antworten[idx[k]])]]

\* ------------------------------------------------------------------------
\* DCC programming helper (srcp_dcc_prog.rs) and the CV telegrams of the
\* DCC codec (srcp_protocol_ddl_dcc.rs)
\* ------------------------------------------------------------------------
\* Option<bool> and Option<u8>
Some(x) == << x >>

Nichts == << >>

\* a DccCvTel of the helper; cv is a u16
DccCvTel(codec, adr, typ, val, bitnr, prog_gleis, cv) ==
  [codec |-> codec, adr |-> adr, typ |-> typ, val |-> val, bitnr |-> bitnr,
   prog_gleis |-> prog_gleis, cv |-> cv % 65536]

Bit(wert, bitnr) == (wert \div (2 ^ bitnr)) % 2

\* the acknowledge pulse of the decoder for a telegram.  The decoder as the
\* acknowledge input shows it: da - a decoder answers on the programming
\* track, wert - the value of its CVs, ack_vorher - the input is already
\* active before a telegram goes out
Quittung(dekoder, tel) ==
  /\ dekoder.da
  /\ CASE tel.typ = "VerifyBit" -> Bit(dekoder.wert, tel.bitnr % 8) = tel.val
       [] tel.typ = "VerifyByte" -> dekoder.wert = tel.val
       [] OTHER -> TRUE

\* mutation: every telegram counts as acknowledged
send_dcc_cv_tel_immer(dekoder, dcc_cv_tel, prog_gleis) ==
  [tel |-> << dcc_cv_tel >>, ack |-> Some(TRUE)]

\* send_dcc_cv_tel: the telegram goes to the codec; on the programming
\* track the result is the decoder's acknowledge, None when the input was
\* active before
send_dcc_cv_tel(dekoder, dcc_cv_tel, prog_gleis) ==
  [tel |-> << dcc_cv_tel >>,
   ack |-> IF prog_gleis
             THEN IF Quittung(dekoder, dcc_cv_tel)
                    THEN IF dekoder.ack_vorher THEN Nichts ELSE Some(TRUE)
                    ELSE Some(FALSE)
             ELSE Some(TRUE)]

execute_sm_cmd_write_ver(dekoder, smcmd) ==
  IF smcmd.prog_gleis \/ smcmd.val.typ = "Write"
    THEN IF smcmd.val.typ \in {"Write", "Verify"}
           THEN LET write == smcmd.val.typ = "Write"
                    cv == smcmd.sm_type = DCC_SM_TYPE_CV
                    typ == CASE write /\ cv -> "WriteByte"
                             [] write -> "WriteBit"
                             [] cv -> "VerifyByte"
                             [] OTHER -> "VerifyBit"
                    val == IF cv THEN smcmd.val.v % 256
                           ELSE IF smcmd.val.v # 0 THEN 1 ELSE 0
                    bitnr == IF cv THEN 0 ELSE smcmd.para[2] % 256
                IN  send_dcc_cv_tel(dekoder,
                                    DccCvTel(smcmd.codec, smcmd.adr, typ, val, bitnr,
                                             IF write THEN smcmd.prog_gleis ELSE TRUE,
                                             smcmd.para[1]),
                                    smcmd.prog_gleis)
           ELSE [tel |-> << >>, ack |-> Nichts]
    ELSE [tel |-> << >>, ack |-> Nichts]

\* read_cv_bit: verify the bit with 0 and with 1, exactly one of the two
\* must be acknowledged
read_cv_bit(dekoder, codec, adr, cv, bitnr) ==
  LET r0 == send_dcc_cv_tel(dekoder, DccCvTel(codec, adr, "VerifyBit", 0, bitnr, TRUE, cv),
                            TRUE)
      r1 == send_dcc_cv_tel(dekoder, DccCvTel(codec, adr, "VerifyBit", 1, bitnr, TRUE, cv),
                            TRUE)
  IN  [tel |-> r0.tel \o r1.tel,
       bit |-> IF r0.ack = Nichts \/ r1.ack = Nichts THEN Nichts
               ELSE IF r0.ack # r1.ack THEN Some(IF r1.ack[1] THEN 1 ELSE 0)
               ELSE Nichts]

\* the loop of read_cv over the bits from bitnr on; result is the value
\* collected so far
RECURSIVE read_cv_bits(_, _, _, _)
read_cv_bits(dekoder, smcmd, bitnr, acc) ==
  IF bitnr > 7 THEN [tel |-> acc.tel, val |-> Some(acc.val)]
  ELSE LET b == read_cv_bit(dekoder, smcmd.codec, smcmd.adr, smcmd.para[1] % 65536, bitnr)
       IN  IF b.bit = Nichts THEN [tel |-> acc.tel \o b.tel, val |-> Nichts]
           ELSE read_cv_bits(dekoder, smcmd, bitnr + 1,
                             [tel |-> acc.tel \o b.tel,
                              val |-> acc.val + b.bit[1] * (2 ^ bitnr)])

read_cv(dekoder, smcmd) ==
  IF smcmd.sm_type = DCC_SM_TYPE_CV
    THEN LET bits == read_cv_bits(dekoder, smcmd, 0, [tel |-> << >>, val |-> 0])
         IN  IF bits.val = Nichts THEN bits
             ELSE LET ver == execute_sm_cmd_write_ver(
                               dekoder, [smcmd EXCEPT !.val = [typ |-> "Verify",
                                                               v |-> bits.val[1]]])
                  IN  [tel |-> bits.tel \o ver.tel,
                       val |-> IF ver.ack = Some(TRUE) THEN bits.val ELSE Nichts]
    ELSE LET b == read_cv_bit(dekoder, smcmd.codec, smcmd.adr, smcmd.para[1] % 65536,
                              smcmd.para[2] % 256)
         IN  [tel |-> b.tel, val |-> b.bit]

\* DccProgThread::execute: the test of the CV number
para_cv_valid(cv) == cv >= 1 \/ cv <= MAX_CV

\* DccProgThread::execute: para_valid
para_valid(smcmd) ==
  LET val == IF smcmd.val.typ \in {"Write", "Verify"} THEN smcmd.val.v ELSE 0 IN
  /\ smcmd.sm_type \in {DCC_SM_TYPE_CV, DCC_SM_TYPE_CVBIT}
  /\ para_cv_valid(smcmd.para[1])
  /\ IF smcmd.sm_type = DCC_SM_TYPE_CVBIT
       THEN val <= 1 /\ smcmd.para[2] <= 7
       ELSE val <= 255

\* DccProgThread::execute, one job: the telegrams ordered from the codec
\* and the answer
dcc_prog_execute(dekoder, smcmd) ==
  IF para_valid(smcmd)
    THEN IF smcmd.val.typ = "Read"
           THEN LET r == read_cv(dekoder, smcmd) IN
                [tel |-> r.tel,
                 ans |-> [smcmd EXCEPT !.val = IF r.val # Nichts
                                                 THEN [typ |-> "ResultOk", v |-> r.val[1]]
                                                 ELSE [typ |-> "ResultErr", v |-> 0]]]
           ELSE LET r == execute_sm_cmd_write_ver(dekoder, smcmd) IN
                [tel |-> r.tel,
                 ans |-> [smcmd EXCEPT !.val = IF r.ack = Some(TRUE)
                                                 THEN [typ |-> "ResultOk", v |-> smcmd.val.v]
                                                 ELSE [typ |-> "ResultErr", v |-> 0]]]
    ELSE [tel |-> << >>, ans |-> [smcmd EXCEPT !.val = [typ |-> "ResultErr", v |-> 0]]]

\* a CV telegram on the SPI bus: the number of the CV as its 10 bits carry
\* it (0 is CV 1), the data byte
CvTel(adr, cv, value) == [dev |-> "SM", adr |-> adr, port |-> cv, value |-> value]

\* the outcomes of the u16 subtraction cvtel.cv - 1 for CV 0: the thread
\* panics (overflow checks on) or the number wraps (overflow checks off)
Ueberlauf == {"panic", "wrap"}

\* get_cv_tel: the telegram for a DccCvTel of the helper
get_cv_tel(cvtel, ueberlauf) ==
  LET cv == IF cvtel.cv = 0 THEN 65535 ELSE cvtel.cv - 1
      haupt_gleis == cvtel.typ \in {"WriteBit", "WriteByte"} /\ ~cvtel.prog_gleis
  IN  [panic |-> cvtel.cv = 0 /\ ueberlauf = "panic",
       tel |-> CvTel(IF haupt_gleis THEN cvtel.adr ELSE 0,
                     ((cv \div 256) % 4) * 256 + (cv % 256),
                     cvtel.val)]

\* get_protokoll_telegrammme of the DCC codecs, called by the background
\* step of the GL device for every codec: the next telegram of the helper
\* of the codec; the loop ends where get_cv_tel panics
get_protokoll_telegrammme(r, codecs, ueberlauf) ==
  LET idx == Erste(r.st.cv_tel, codecs)
      tels == [k \in 1..Len(idx) |-> get_cv_tel(r.st.cv_tel[idx[k]], ueberlauf)]
      panic == \E k \in 1..Len(idx) : tels[k].panic
      n == IF panic
             THEN CHOOSE k \in 1..Len(idx) :
                    tels[k].panic /\ \A j \in 1..(k - 1) : ~tels[j].panic
             ELSE Len(idx)
  IN  IF r.panic THEN r
      ELSE [r EXCEPT !.st.cv_tel = Ohne(@, SubSeq(idx, 1, n)),
                     !.tel = @ \o [k \in 1..(IF panic THEN n - 1 ELSE n) |-> tels[k].tel],
                     !.panic = panic]

\* ------------------------------------------------------------------------
\* MFX helper (srcp_mfx_rds.rs), the ReadWriteCA job
\* ------------------------------------------------------------------------
\* the decoder as the RDS feedback shows it: gefunden - find_ca finds the
\* CA, gelesen - the byte read_cv returns (Nichts: no valid feedback)
mfx_rds_execute(dekoder, ca_parameter) ==
  IF dekoder.gefunden
    THEN CASE ca_parameter.val.typ = "Read" ->
                [ca_parameter EXCEPT !.val =
                   IF dekoder.gelesen # Nichts
                     THEN [typ |-> "ResultOk", v |-> dekoder.gelesen[1]]
                     ELSE [typ |-> "ResultErr", v |-> 0]]
           [] ca_parameter.val.typ = "Write" -> ca_parameter
           [] OTHER ->
                [ca_parameter EXCEPT !.val =
                   IF dekoder.gelesen # Nichts /\ dekoder.gelesen[1] = ca_parameter.val.v
                     THEN [typ |-> "ResultOk", v |-> dekoder.gelesen[1]]
                     ELSE [typ |-> "ResultErr", v |-> 0]]
    ELSE [ca_parameter EXCEPT !.val = [typ |-> "ResultErr", v |-> 0]]

\* ------------------------------------------------------------------------
\* MFX protocol (srcp_protocol_ddl_mfx.rs): the registration counter
\* (Neuanmeldezaehler) and the search for new decoders
\* ------------------------------------------------------------------------
\* a UID has 32 bits.  It is modelled as the set of its bits that are 1, bit
\* k being 0x80000000 >> (k - 1): UID 0 is the empty set
UID_BITS == 32

\* discoveries a behaviour of the model can see
MaxReg == 3

\* the counts the counter file can hold in the model: the first ones and
\* the last ones of a u16
RegZahlen == (0..MaxReg) \cup ((65535 - MaxReg)..65535)

RegDecimal ==
  [s \in {to_string(n) : n \in RegZahlen} |->
     CHOOSE n \in RegZahlen : to_string(n) = s]

\* str::parse::<u16>()
parse_u16(s) == IF s \in DOMAIN RegDecimal THEN Some(RegDecimal[s]) ELSE Nichts

KeinErgebnis == [bits |-> 0, uid |-> {}, positiv |-> FALSE, result |-> "None"]

\* MfxProtokoll::from: load the counter from the file; 0 when the file
\* cannot be read or holds no u16
MfxProtokollFrom(file) ==
  [reg_counter |-> IF file # Nichts /\ parse_u16(file[1]) # Nichts
                     THEN parse_u16(file[1])[1] ELSE 0,
   search_new_dekoder_bits |-> 0,
   search_new_dekoder_uid |-> {},
   \* not a field of the code: the last evaluation of a search telegram,
   \* what it found and what it returned
   ergebnis |-> KeinErgebnis]

\* save_registration_counter: fs::write, a failure is only logged
save_registration_counter(st, file, geschrieben) ==
  IF geschrieben THEN Some(to_string(st.reg_counter)) ELSE file

\* a decoder that is not registered answers the search telegram when the
\* first `bits` bits of its UID are those of the telegram
Antwort(dekoder, bits, uid_gesucht) ==
  \E d \in dekoder : \A k \in 1..bits : (k \in d) <=> (k \in uid_gesucht)

\* mutation: a search telegram without answer ends the search at once, the
\* bit is never tried as 1
eval_send_search_new_decoder_ohne_1(st, positiv, ueberlauf) ==
  LET neu == [st EXCEPT !.search_new_dekoder_uid = {}, !.search_new_dekoder_bits = 0]
      bits == st.search_new_dekoder_bits
  IN  IF positiv
        THEN IF bits >= UID_BITS
               THEN [st |-> [neu EXCEPT !.reg_counter = (@ + 1) % 65536],
                     result |-> "Ok", save |-> TRUE, panic |-> FALSE]
             ELSE [st |-> [st EXCEPT !.search_new_dekoder_bits = @ + 1],
                   result |-> "InProgress", save |-> FALSE, panic |-> FALSE]
      ELSE [st |-> neu, result |-> "None", save |-> FALSE, panic |-> FALSE]

\* eval_send_search_new_decoder; positiv: at least 5% of the bits of the
\* feedback window were 1.  reg_counter += 1 on a u16 that holds 65535
\* panics in a build with overflow checks and wraps to 0 in one without.
eval_send_search_new_decoder(st, positiv, ueberlauf) ==
  LET neu == [st EXCEPT !.search_new_dekoder_uid = {}, !.search_new_dekoder_bits = 0]
      bits == st.search_new_dekoder_bits
  IN  IF positiv
        THEN IF bits >= UID_BITS
               THEN IF st.search_new_dekoder_uid = {}
                      THEN [st |-> neu, result |-> "Error", save |-> FALSE,
                            panic |-> FALSE]
                    ELSE IF st.reg_counter = 65535 /\ ueberlauf = "panic"
                      THEN [st |-> st, result |-> "None", save |-> FALSE, panic |-> TRUE]
                    ELSE [st |-> [neu EXCEPT !.reg_counter = (@ + 1) % 65536],
                          result |-> "Ok", save |-> TRUE, panic |-> FALSE]
             ELSE [st |-> [st EXCEPT !.search_new_dekoder_bits = @ + 1],
                   result |-> "InProgress", save |-> FALSE, panic |-> FALSE]
      ELSE IF bits > 0
        THEN IF bits \notin st.search_new_dekoder_uid
               THEN [st |-> [st EXCEPT !.search_new_dekoder_uid = @ \cup {bits}],
                     result |-> "None", save |-> FALSE, panic |-> FALSE]
             ELSE [st |-> neu, result |-> "None", save |-> FALSE, panic |-> FALSE]
      ELSE [st |-> st, result |-> "None", save |-> FALSE, panic |-> FALSE]

\* ------------------------------------------------------------------------
\* State
\* ------------------------------------------------------------------------
VARIABLES
  watchdog,          \* DDL.watchdog, the configuration option
  rx,                \* command channel session layer -> DDL scheduler
  info_tx,           \* info channel DDL devices -> dispatcher
  spi,               \* telegrams shipped by the latest scheduler step
  all_devices,       \* state of the devices POWER, GA, GL, SM
  queue,             \* DDL::execute: queue
  instant_kommando,  \* DDL::execute: instant_kommando
  ddl_power_on,      \* DDL::execute: power_on, sampled at the top of the loop
  ddl_pc,            \* position of the DDL thread: top, intake, background, panic
  zweig,             \* the branch the latest scheduler step took
  validiert,         \* what validate_cmd did in the latest scheduler step
  sent,              \* number of command lines sent by clients so far
  arrivals,          \* number of commands the scheduler has taken in
  queue_nr,          \* arrival number of every queue entry
  eff_nr,            \* arrival number of the command that took effect last
  session_id,        \* srcp_server: the session counter
  sess,              \* the client threads, by session id
  chan,              \* the info channel of every session (dispatcher -> session)
  info_client,       \* ALLE_SRCP_INFO_SENDER.info_client (session ids)
  command_client,    \* ALLE_SRCP_INFO_SENDER.command_client (session ids)
  pid_file,          \* the file PID_FILE exists
  cleanup,           \* the thread "Cleanup" of main.rs: position, time of the signal
  reg_counter_file,  \* content of the file mfx_reg_count_file (Nichts: no file)
  mfx,               \* MfxProtokoll: reg_counter and the state of the decoder search
  gleis,             \* UIDs of the MFX decoders on the track that are not registered
  zeile,             \* the latest line a command session has read, and what became of it
  hs,                \* the handshake of one connection: its position and what was written
  cmd_line           \* the latest start of the program with arguments, and what became of it

ddl_vars == << rx, info_tx, spi, all_devices, queue, instant_kommando, ddl_power_on,
               ddl_pc, zweig, validiert, arrivals, queue_nr, eff_nr >>

srcp_vars == << session_id, sess, chan, info_client, command_client >>

main_vars == << pid_file, cleanup >>

mfx_vars == << reg_counter_file, mfx, gleis >>

\* what neither the scheduler nor the session layer touches
io_vars == << zeile, cmd_line, hs >>
other_vars == << main_vars, mfx_vars, overflow_checks, io_vars >>

vars == << now, watchdog, sent, ddl_vars, srcp_vars, other_vars >>

\* the process has not called process::exit
Running == cleanup.pc # "exited"

\* the sessions a behaviour can open
MaxSessions == 2

Sessions == 1..MaxSessions

\* a connection that has not been accepted yet
\* n_read, n_written, n_bus and n_chan are not fields of the code: the lines
\* read and written, the commands handed to the bus and the messages taken
\* from the channel of the session (forwarded or dropped)
NoSession ==
  [mode |-> "none", pc |-> "none", sock |-> TRUE, wait_since |-> 0, n_read |-> 0,
   n_written |-> 0, written |-> "", n_bus |-> 0, n_chan |-> 0]

Devices == {"POWER", "GA", "GL", "SM"}

\* the arrival numbers are not part of the code; they are counted up to
\* MaxArrivals
MaxArrivals == 6
NextArrival == IF arrivals < MaxArrivals THEN arrivals + 1 ELSE arrivals

\* no validate_cmd call in this step
NichtValidiert == [called |-> FALSE, ok |-> FALSE, out |-> << >>, panic |-> FALSE]

\* the info channel has room for the messages of a scheduler step
InfoTxFrei == Len(info_tx) <= MaxInfoTx

\* SRCPDeviceDDL::validate_cmd of device d
validate_cmd(d, st, cmd) ==
  CASE d = "POWER" -> power_validate_cmd(st, cmd)
    [] d = "GA" -> ga_validate_cmd(st, cmd)
    [] d = "GL" -> gl_validate_cmd(st, cmd)
    [] OTHER -> sm_validate_cmd(st, cmd)

\* SRCPDeviceDDL::execute_cmd of device d, after validate_cmd sent `out`
execute_cmd(d, st, out, cmd, power, t) ==
  CASE d = "POWER" -> power_execute_cmd(Res(st, out, << >>, FALSE), cmd, t)
    [] d = "GA" -> ga_execute_cmd(Res(st, out, << >>, FALSE), cmd, t)
    [] d = "GL" -> gl_execute_cmd(Res(st, out, << >>, FALSE), cmd)
    [] OTHER -> sm_execute_cmd(Res(st, out, << >>, FALSE), cmd, power)

\* SRCPDeviceDDL::send_all_info of all devices, in the order POWER, GA, GL
\* (SM has nothing to report)
send_all_info(devs, sid) ==
  << power_send_all_info(devs["POWER"], sid) >>
  \o ga_send_all_info(devs["GA"], sid, DOMAIN devs["GA"].all_ga)
  \o gl_send_all_info(devs["GL"], sid, Sorted(DOMAIN devs["GL"].all_gl))

\* mutation: an older SET for the address is never found
QueueIndex_nie(q, adr, i) == 0

\* the index of the first GL entry of the queue for the address adr
\* (0: none), searched from index i on
RECURSIVE QueueIndex(_, _, _)
QueueIndex(q, adr, i) ==
  IF i > Len(q) THEN 0
  ELSE IF q[i].dev = "GL" /\ get_adr(q[i]) = adr THEN i
  ELSE QueueIndex(q, adr, i + 1)

\* the MFX codec after MfxProtokoll::from, with the counter file the
\* process finds and the decoders that stand on the track
InitMfx(files, dekoder) ==
  /\ reg_counter_file \in files
  /\ mfx = MfxProtokollFrom(reg_counter_file)
  /\ gleis \in dekoder

\* the process has started: the bus, its devices and the session layer;
\* pw and gl are the states of the POWER and of the GL device
InitBusDev(pw, gl) ==
  /\ now = 0
  /\ watchdog \in BOOLEAN
  /\ rx = << >>
  /\ info_tx = << >>
  /\ spi = << >>
  /\ all_devices = [d \in Devices |->
                      CASE d = "POWER" -> pw
                        [] d = "GA" -> GANew
                        [] d = "GL" -> gl
                        [] OTHER -> SMNew]
  /\ queue = << >>
  /\ instant_kommando = 0
  /\ ddl_power_on = FALSE
  /\ ddl_pc = "top"
  /\ zweig = "start"
  /\ validiert = NichtValidiert
  /\ sent = 0
  /\ arrivals = 0
  /\ queue_nr = << >>
  /\ eff_nr = 0
  /\ session_id = 0
  /\ sess = [s \in 0..MaxSessions |-> NoSession]
  /\ chan = [s \in Sessions |-> << >>]
  /\ info_client = << >>
  /\ command_client = << >>
  /\ pid_file = TRUE
  /\ cleanup = [pc |-> "wait", seit |-> 0]
  /\ zeile = [pc |-> "none", bytes |-> << >>, text |-> ""]
  /\ hs = HandshakeNew
  /\ cmd_line = [pc |-> "none", args |-> << >>, fork |-> FALSE, config_file |-> "",
                 message |-> "", usage |-> FALSE, status |-> 0]

InitBusMit(gl) == InitBusDev(PowerNew(0), gl)

InitBus == InitBusMit(GLNew)

\* the state after construction; no counter file, no MFX decoder on the track
\* and a build without overflow checks
Init == InitBus /\ InitMfx({Nichts}, {{}}) /\ overflow_checks = FALSE

\* ------------------------------------------------------------------------
\* DDL scheduler thread (DDL::execute, srcp_server_ddl.rs)
\* ------------------------------------------------------------------------
\* top of the loop: sample the delayed "power is on" signal
LoopTop ==
  /\ Running
  /\ ddl_pc = "top"
  /\ ddl_power_on' = is_dev_spezifisch(all_devices["POWER"], now)
  /\ ddl_pc' = "intake"
  /\ zweig' = "top"
  /\ spi' = << >>
  /\ validiert' = NichtValidiert
  /\ UNCHANGED << now, watchdog, rx, info_tx, all_devices, queue, instant_kommando,
                  sent, arrivals, queue_nr, eff_nr >>
  /\ UNCHANGED srcp_vars
  /\ UNCHANGED other_vars

\* mutation: every command goes through the queue
Sofort_nie(cmd) == FALSE

\* a command that passed validate_cmd is executed at once unless it is a
\* SET for GL or GA
Sofort(cmd) == cmd.dev = "POWER" \/ cmd.dev = "SM" \/ cmd.code # "SET"

\* one round of the intake loop: take one message from the command channel
Intake ==
  /\ Running
  /\ ddl_pc = "intake"
  /\ rx # << >>
  /\ InfoTxFrei
  /\ rx' = Tail(rx)
  /\ LET msg == Head(rx) IN
     IF msg.kind = "NEWINFOCLIENT"
       THEN LET panic == \E adr \in DOMAIN all_devices["GL"].all_gl :
                           gl_send_info_msg_panic(all_devices["GL"], adr)
            IN
            /\ info_tx' = info_tx \o send_all_info(all_devices, msg.sid)
            /\ zweig' = IF panic THEN "panic" ELSE "newinfoclient"
            /\ ddl_pc' = IF panic THEN "panic" ELSE ddl_pc
            /\ spi' = << >>
            /\ validiert' = NichtValidiert
            /\ UNCHANGED << all_devices, queue, instant_kommando, arrivals,
                            queue_nr, eff_nr >>
       ELSE /\ instant_kommando' = now
            /\ arrivals' = NextArrival
            /\ IF msg.dev \notin Devices
                 THEN /\ info_tx' = Append(info_tx, new_err(msg, "421", "unsupported device"))
                      /\ zweig' = "unsupported"
                      /\ spi' = << >>
                      /\ validiert' = NichtValidiert
                      /\ UNCHANGED << all_devices, queue, ddl_pc, queue_nr, eff_nr >>
                 ELSE LET v == validate_cmd(msg.dev, all_devices[msg.dev], msg) IN
                      /\ validiert' = [called |-> TRUE, ok |-> v.ok, out |-> v.out,
                                       panic |-> v.panic]
                      /\ IF v.panic
                        THEN /\ ddl_pc' = "panic"
                             /\ zweig' = "panic"
                             /\ info_tx' = info_tx \o v.out
                             /\ spi' = << >>
                             /\ UNCHANGED << all_devices, queue, queue_nr, eff_nr >>
                        ELSE IF ~v.ok
                          THEN /\ info_tx' = info_tx \o v.out
                               /\ zweig' = "rejected"
                               /\ spi' = << >>
                               /\ UNCHANGED << all_devices, queue, ddl_pc, queue_nr, eff_nr >>
                          ELSE IF Sofort(msg)
                            THEN LET r == execute_cmd(msg.dev, all_devices[msg.dev], v.out,
                                                      msg, ddl_power_on, now)
                                 IN  /\ all_devices' = [all_devices EXCEPT ![msg.dev] = r.st]
                                     /\ info_tx' = info_tx \o r.out
                                     /\ spi' = r.tel
                                     /\ ddl_pc' = IF r.panic THEN "panic" ELSE ddl_pc
                                     /\ zweig' = IF r.panic THEN "panic" ELSE "immediate"
                                     /\ eff_nr' = NextArrival
                                     /\ UNCHANGED << queue, queue_nr >>
                            ELSE LET i == IF msg.dev = "GL"
                                            THEN QueueIndex(queue, get_adr(msg), 1) ELSE 0
                                 IN  /\ queue' = Append(IF i = 0 THEN queue
                                                        ELSE Remove(queue, i), msg)
                                     /\ queue_nr' = Append(IF i = 0 THEN queue_nr
                                                           ELSE Remove(queue_nr, i),
                                                           NextArrival)
                                     /\ info_tx' = info_tx \o v.out
                                     /\ zweig' = IF i = 0 THEN "queued" ELSE "replaced"
                                     /\ spi' = << >>
                                     /\ UNCHANGED << all_devices, ddl_pc, eff_nr >>
  /\ UNCHANGED << now, watchdog, ddl_power_on, sent >>
  /\ UNCHANGED srcp_vars
  /\ UNCHANGED other_vars

\* the command channel is empty: watchdog, refresh or the oldest queued SET
Dispatch ==
  /\ Running
  /\ ddl_pc = "intake"
  /\ rx = << >>
  /\ InfoTxFrei
  /\ validiert' = NichtValidiert
  /\ IF ~ddl_power_on
       THEN /\ zweig' = "poweroff"
            /\ ddl_pc' = "background"
            /\ spi' = << >>
            /\ UNCHANGED << info_tx, all_devices, queue, queue_nr, eff_nr >>
       ELSE IF watchdog /\ now > instant_kommando + WATCHDOG_TIMEOUT
         THEN LET r == power_execute_cmd(Res(all_devices["POWER"], << >>, << >>, FALSE),
                                         Cmd(0, "SET", "POWER", << "OFF" >>), now)
              IN  /\ all_devices' = [all_devices EXCEPT !["POWER"] = r.st]
                  /\ info_tx' = info_tx \o r.out
                  /\ spi' = << >>
                  /\ zweig' = "watchdog"
                  /\ ddl_pc' = "background"
                  /\ UNCHANGED << queue, queue_nr, eff_nr >>
         ELSE IF queue = << >>
           THEN LET r == send_refresh(Res(all_devices["GL"], << >>, << >>, FALSE))
                IN  /\ all_devices' = [all_devices EXCEPT !["GL"] = r.st]
                    /\ spi' = r.tel
                    /\ zweig' = IF r.panic THEN "panic" ELSE "refresh"
                    /\ ddl_pc' = IF r.panic THEN "panic" ELSE "background"
                    /\ UNCHANGED << info_tx, queue, queue_nr, eff_nr >>
           ELSE LET msg == Head(queue)
                    r == execute_cmd(msg.dev, all_devices[msg.dev], << >>, msg,
                                     ddl_power_on, now)
                IN  /\ queue' = Tail(queue)
                    /\ queue_nr' = Tail(queue_nr)
                    /\ eff_nr' = Head(queue_nr)
                    /\ all_devices' = [all_devices EXCEPT ![msg.dev] = r.st]
                    /\ info_tx' = info_tx \o r.out
                    /\ spi' = r.tel
                    /\ zweig' = IF r.panic THEN "panic" ELSE "queue"
                    /\ ddl_pc' = IF r.panic THEN "panic" ELSE "background"
  /\ UNCHANGED << now, watchdog, rx, instant_kommando, ddl_power_on, sent, arrivals >>
  /\ UNCHANGED srcp_vars
  /\ UNCHANGED other_vars

\* background work of every device, in the order POWER, GA, GL, SM;
\* booster_on is the DSR input.  The order of the codecs and the outcome of
\* an overflow are open only where they make a difference.
Background(booster_inputs, shortcut_delay) ==
  /\ Running
  /\ ddl_pc = "background"
  /\ InfoTxFrei
  /\ validiert' = NichtValidiert
  /\ \E booster_on \in booster_inputs,
        codecs \in (IF Len(all_devices["SM"].antworten) + Len(all_devices["SM"].cv_tel) > 1
                      THEN Reihenfolgen ELSE {SmCodecs}),
        ueberlauf \in (IF \E i \in 1..Len(all_devices["SM"].cv_tel) :
                               all_devices["SM"].cv_tel[i].cv = 0
                         THEN Ueberlauf ELSE {"wrap"}) :
       LET rp == power_execute(Res(all_devices["POWER"], << >>, << >>, FALSE),
                               booster_on, shortcut_delay, now)
           rga == ga_execute(Res(all_devices["GA"], rp.out, << >>, FALSE),
                             ddl_power_on, now)
           rgl == gl_execute(Res(all_devices["GL"], rga.out, rga.tel, rga.panic),
                             ddl_power_on)
           \* the codecs' telegrams and the answers of the helpers, unless
           \* the thread has panicked before
           rcv == get_protokoll_telegrammme(Res(all_devices["SM"], << >>, << >>, FALSE),
                                            codecs, ueberlauf)
           \* with nothing waiting in any channel both loops over the protocols do nothing
           rsm == IF all_devices["SM"].antworten = << >> /\ all_devices["SM"].cv_tel = << >>
                    THEN Res(all_devices["SM"], << >>, << >>, FALSE)
                    ELSE IF rcv.panic THEN rcv ELSE sm_execute(rcv, codecs)
       IN  IF rgl.panic
             THEN /\ all_devices' = [all_devices EXCEPT !["POWER"] = rp.st,
                                                        !["GA"] = rga.st,
                                                        !["GL"] = rgl.st]
                  /\ info_tx' = info_tx \o rgl.out
                  /\ spi' = rgl.tel
                  /\ ddl_pc' = "panic"
                  /\ zweig' = "panic"
             ELSE /\ all_devices' = [d \in Devices |->
                                       CASE d = "POWER" -> rp.st
                                         [] d = "GA" -> rga.st
                                         [] d = "GL" -> rgl.st
                                         [] OTHER -> rsm.st]
                  /\ info_tx' = info_tx \o rgl.out \o rsm.out
                  /\ spi' = rgl.tel \o rsm.tel
                  /\ ddl_pc' = IF rsm.panic THEN "panic" ELSE "top"
                  /\ zweig' = IF rsm.panic THEN "panic" ELSE "background"
  /\ UNCHANGED << now, watchdog, rx, queue, instant_kommando, ddl_power_on, sent,
                  arrivals, queue_nr, eff_nr >>
  /\ UNCHANGED srcp_vars
  /\ UNCHANGED other_vars

\* ------------------------------------------------------------------------
\* Helper tasks of the codecs
\* ------------------------------------------------------------------------
\* DccProgThread::execute of a DCC codec: take the next job, order the
\* telegrams and sample the acknowledge input, send the answer
DccProg(version, dekoder_inputs) ==
  /\ Running
  /\ ddl_pc # "panic"
  /\ LET sm == all_devices["SM"]
         i == ErsterVon(sm.jobs, << "N", version >>, 1)
     IN  /\ i # 0
         /\ \E dekoder \in dekoder_inputs :
              LET r == dcc_prog_execute(dekoder, sm.jobs[i]) IN
              all_devices' = [all_devices EXCEPT
                                !["SM"] = [sm EXCEPT !.jobs = Remove(@, i),
                                                     !.cv_tel = @ \o r.tel,
                                                     !.antworten = Append(@, r.ans)]]
  /\ UNCHANGED << now, watchdog, sent, rx, info_tx, spi, queue, instant_kommando,
                  ddl_power_on, ddl_pc, zweig, validiert, arrivals, queue_nr, eff_nr >>
  /\ UNCHANGED srcp_vars
  /\ UNCHANGED other_vars

\* MfxRdsFeedbackThread::execute, a ReadWriteCA job: take the job, work on
\* the decoder, send the answer
MfxRds(dekoder_inputs) ==
  /\ Running
  /\ ddl_pc # "panic"
  /\ LET sm == all_devices["SM"]
         i == ErsterVon(sm.jobs, << "X", "0" >>, 1)
     IN  /\ i # 0
         /\ \E dekoder \in dekoder_inputs :
              all_devices' = [all_devices EXCEPT
                                !["SM"] = [sm EXCEPT !.jobs = Remove(@, i),
                                                     !.antworten =
                                                       Append(@, mfx_rds_execute(dekoder,
                                                                                 sm.jobs[i]))]]
  /\ UNCHANGED << now, watchdog, sent, rx, info_tx, spi, queue, instant_kommando,
                  ddl_power_on, ddl_pc, zweig, validiert, arrivals, queue_nr, eff_nr >>
  /\ UNCHANGED srcp_vars
  /\ UNCHANGED other_vars

\* The MFX codec's share of a scheduler loop with power on
\* (get_protokoll_telegrammme, eval_neu_anmeldung): the search telegram goes
\* out, the feedback window is evaluated; a decoder that was found gets its
\* rail address and does not answer the search any more
MfxSuche(schreiben_inputs) ==
  /\ Running
  /\ ddl_pc = "background"
  /\ ddl_power_on
  /\ \E geschrieben \in schreiben_inputs :
       LET r == eval_send_search_new_decoder(
                  mfx,
                  Antwort(gleis, mfx.search_new_dekoder_bits, mfx.search_new_dekoder_uid),
                  IF overflow_checks THEN "panic" ELSE "wrap")
       IN  /\ mfx' = [r.st EXCEPT !.ergebnis =
                                [bits |-> mfx.search_new_dekoder_bits,
                                 uid |-> mfx.search_new_dekoder_uid,
                                 positiv |-> Antwort(gleis, mfx.search_new_dekoder_bits,
                                                     mfx.search_new_dekoder_uid),
                                 result |-> r.result]]
           /\ reg_counter_file' =
                IF r.save THEN save_registration_counter(r.st, reg_counter_file, geschrieben)
                ELSE reg_counter_file
           /\ gleis' = IF r.result = "Ok" THEN gleis \ {mfx.search_new_dekoder_uid}
                       ELSE gleis
           /\ ddl_pc' = IF r.panic THEN "panic" ELSE ddl_pc
           /\ zweig' = IF r.panic THEN "panic" ELSE zweig
  /\ UNCHANGED << now, watchdog, sent, rx, info_tx, spi, all_devices, queue,
                  instant_kommando, ddl_power_on, validiert, arrivals, queue_nr, eff_nr >>
  /\ UNCHANGED srcp_vars
  /\ UNCHANGED << main_vars, overflow_checks, io_vars >>

\* The process ends (exit, kill, panic of a thread and restart by the
\* operator) and is started again: everything is constructed anew, the
\* counter comes from the file.  Time is counted from the new start.
Neustart ==
  /\ now' = 0
  /\ rx' = << >>
  /\ info_tx' = << >>
  /\ spi' = << >>
  /\ all_devices' = [d \in Devices |->
                       CASE d = "POWER" -> PowerNew(0)
                         [] d = "GA" -> GANew
                         [] d = "GL" -> GLNew
                         [] OTHER -> SMNew]
  /\ queue' = << >>
  /\ instant_kommando' = 0
  /\ ddl_power_on' = FALSE
  /\ ddl_pc' = "top"
  /\ zweig' = "start"
  /\ validiert' = NichtValidiert
  /\ sent' = 0
  /\ arrivals' = 0
  /\ queue_nr' = << >>
  /\ eff_nr' = 0
  /\ session_id' = 0
  /\ sess' = [s \in 0..MaxSessions |-> NoSession]
  /\ chan' = [s \in Sessions |-> << >>]
  /\ info_client' = << >>
  /\ command_client' = << >>
  /\ pid_file' = TRUE
  /\ cleanup' = [pc |-> "wait", seit |-> 0]
  /\ mfx' = MfxProtokollFrom(reg_counter_file)
  /\ UNCHANGED << watchdog, reg_counter_file, gleis, overflow_checks, io_vars >>

\* ------------------------------------------------------------------------
\* Environment of the scheduler
\* ------------------------------------------------------------------------
\* time passes
Tick(steps, max) ==
  /\ \E d \in steps : now + d <= max /\ now' = now + d
  /\ UNCHANGED << watchdog, sent >>
  /\ UNCHANGED ddl_vars
  /\ UNCHANGED srcp_vars
  /\ UNCHANGED other_vars

\* a command session hands a parsed command line to the bus
ClientSend(cmds, max) ==
  /\ Running
  /\ sent < max
  /\ ddl_pc # "panic"
  /\ rx = << >>
  /\ \E c \in cmds : rx' = Append(rx, c)
  /\ sent' = sent + 1
  /\ UNCHANGED << now, watchdog, info_tx, spi, all_devices, queue, instant_kommando,
                  ddl_power_on, ddl_pc, zweig, validiert, arrivals, queue_nr, eff_nr >>
  /\ UNCHANGED srcp_vars
  /\ UNCHANGED other_vars

\* ------------------------------------------------------------------------
\* Info dispatcher (srcp.rs)
\* ------------------------------------------------------------------------
\* mutation: every channel counts as closed
Alive_nie(s) == FALSE

\* the receiving end of a session's channel exists while its thread runs
Alive(s) == sess[s].pc \notin {"none", "ended", "panic"}

\* the while loop of send_info_msg_for_client_group from index i on;
\* the result is the remaining client list and the sessions sent to
RECURSIVE group_loop(_, _, _, _)
group_loop(clients, srcp_message, i, an) ==
  IF i > Len(clients) THEN [clients |-> clients, an |-> an]
  ELSE IF srcp_message.sid = None \/ clients[i] = srcp_message.sid
         THEN IF ~Alive(clients[i])
                THEN group_loop(Remove(clients, i), srcp_message, i, an)
                ELSE group_loop(clients, srcp_message, i + 1, Append(an, clients[i]))
         ELSE group_loop(clients, srcp_message, i + 1, an)

\* mutation: the session id of the message is not looked at
send_info_msg_an_alle(clients, srcp_message, nur_mit_session) ==
  IF srcp_message.sid = None /\ nur_mit_session
    THEN [clients |-> clients, an |-> << >>]
    ELSE [clients |-> SelectSeq(clients, Alive), an |-> SelectSeq(clients, Alive)]

send_info_msg_for_client_group(clients, srcp_message, nur_mit_session) ==
  IF srcp_message.sid = None /\ nur_mit_session
    THEN [clients |-> clients, an |-> << >>]
    ELSE group_loop(clients, srcp_message, 1, << >>)

\* dispachter_srcp_info: one message of the info channel
Dispatcher ==
  /\ Running
  /\ info_tx # << >>
  /\ LET msg == Head(info_tx)
         gi == send_info_msg_for_client_group(info_client, msg, FALSE)
         gc == send_info_msg_for_client_group(command_client, msg, TRUE)
         an == {gi.an[i] : i \in 1..Len(gi.an)} \cup {gc.an[i] : i \in 1..Len(gc.an)}
     IN  /\ info_tx' = Tail(info_tx)
         /\ info_client' = gi.clients
         /\ command_client' = gc.clients
         /\ chan' = [s \in Sessions |-> IF s \in an THEN Append(chan[s], msg) ELSE chan[s]]
  /\ UNCHANGED << now, watchdog, sent, rx, spi, all_devices, queue, instant_kommando,
                  ddl_power_on, ddl_pc, zweig, validiert, arrivals, queue_nr, eff_nr,
                  session_id, sess >>
  /\ UNCHANGED other_vars

\* ------------------------------------------------------------------------
\* Client sessions (srcp.rs).  The handshake is taken as passed: a session
\* starts in the mode the client asked for.
\* ------------------------------------------------------------------------
\* the scheduler's own variables
sched_vars == << spi, all_devices, queue, instant_kommando, ddl_power_on, ddl_pc, zweig,
                 validiert, arrivals, queue_nr, eff_nr >>

\* send_srcp_message and what follows it: the line goes to the socket and
\* the thread goes on at pc, or the write fails and the thread leaves its loop
Write(se, text, pc) ==
  IF se.sock THEN [se EXCEPT !.written = text, !.n_written = @ + 1, !.pc = pc]
  ELSE [se EXCEPT !.pc = "ended"]

\* mutation: the counter is handed out as it is
next_session_id_gleich(id) == id

\* srcp_server: session_id = session_id + 1 (a u32; the connections of a
\* behaviour stay far below its range)
next_session_id(id) == id + 1

\* srcp_server: accept a connection, take the next session id and start the
\* thread of the session
Accept(modes) ==
  /\ Running
  /\ session_id < MaxSessions
  /\ session_id' = next_session_id(session_id)
  /\ \E m \in modes :
       sess' = [sess EXCEPT ![next_session_id(session_id)] =
                  [NoSession EXCEPT !.mode = m, !.pc = "register"]]
  /\ UNCHANGED << now, watchdog, sent, rx, info_tx, chan, info_client, command_client >>
  /\ UNCHANGED sched_vars
  /\ UNCHANGED other_vars

\* handle_srcp_commandmode: register the channel of the session
CmdRegister(s) ==
  /\ Running
  /\ sess[s].mode = "command"
  /\ sess[s].pc = "register"
  /\ command_client' = Append(command_client, s)
  /\ sess' = [sess EXCEPT ![s].pc = "read"]
  /\ UNCHANGED << now, watchdog, sent, rx, info_tx, session_id, chan, info_client >>
  /\ UNCHANGED sched_vars
  /\ UNCHANGED other_vars

\* handle_srcp_commandmode: read a line, drop what is left in the channel,
\* parse the line and hand the command to its bus
CmdReadLine(s, lines, max) ==
  /\ Running
  /\ sess[s].mode = "command"
  /\ sess[s].pc = "read"
  /\ sess[s].sock
  /\ sent < max
  /\ sent' = sent + 1
  /\ \E cmd_parts \in lines :
       LET se == [sess[s] EXCEPT !.n_read = @ + 1, !.n_chan = @ + Len(chan[s])]
           p == SRCPMessageFrom(s, cmd_parts)
       IN  IF ~p.ok
             THEN /\ sess' = [sess EXCEPT ![s] = Write(se, p.err, "read")]
                  /\ rx' = rx
             ELSE IF p.msg.bus # BusNr
               THEN /\ sess' = [sess EXCEPT ![s] = Write(se, "412 ERROR wrong value", "read")]
                    /\ rx' = rx
               ELSE IF ddl_pc = "panic"
                 THEN /\ sess' = [sess EXCEPT ![s] = [se EXCEPT !.pc = "panic", !.sock = FALSE]]
                      /\ rx' = rx
                 ELSE /\ sess' = [sess EXCEPT ![s] = [se EXCEPT !.pc = "wait",
                                                                !.wait_since = now,
                                                                !.n_bus = @ + 1]]
                      /\ rx' = Append(rx, p.msg)
  /\ chan' = [chan EXCEPT ![s] = << >>]
  /\ UNCHANGED << now, watchdog, info_tx, session_id, info_client, command_client >>
  /\ UNCHANGED sched_vars
  /\ UNCHANGED other_vars

\* handle_srcp_commandmode: the connection is gone, read_line fails
CmdEof(s) ==
  /\ Running
  /\ sess[s].mode = "command"
  /\ sess[s].pc = "read"
  /\ ~sess[s].sock
  /\ sess' = [sess EXCEPT ![s].pc = "ended"]
  /\ UNCHANGED << now, watchdog, sent, rx, info_tx, session_id, chan, info_client,
                  command_client >>
  /\ UNCHANGED sched_vars
  /\ UNCHANGED other_vars

\* handle_srcp_commandmode: recv_timeout returns a message, it is written
\* to the client
CmdReply(s) ==
  /\ Running
  /\ sess[s].pc = "wait"
  /\ chan[s] # << >>
  /\ sess' = [sess EXCEPT ![s] = Write([@ EXCEPT !.n_chan = @ + 1],
                                        Line(Head(chan[s])), "read")]
  /\ chan' = [chan EXCEPT ![s] = Tail(@)]
  /\ UNCHANGED << now, watchdog, sent, rx, info_tx, session_id, info_client,
                  command_client >>
  /\ UNCHANGED sched_vars
  /\ UNCHANGED other_vars

\* handle_srcp_commandmode: recv_timeout runs into its 500 ms
CmdTimeout(s) ==
  /\ Running
  /\ sess[s].pc = "wait"
  /\ chan[s] = << >>
  /\ now >= sess[s].wait_since + REPLY_TIMEOUT
  /\ sess' = [sess EXCEPT ![s] = Write(@, "417 ERROR timeout", "read")]
  /\ UNCHANGED << now, watchdog, sent, rx, info_tx, session_id, chan, info_client,
                  command_client >>
  /\ UNCHANGED sched_vars
  /\ UNCHANGED other_vars

\* handle_srcp_infomode: register the channel of the session
InfoRegister(s) ==
  /\ Running
  /\ sess[s].mode = "info"
  /\ sess[s].pc = "register"
  /\ info_client' = Append(info_client, s)
  /\ sess' = [sess EXCEPT ![s].pc = "announce"]
  /\ UNCHANGED << now, watchdog, sent, rx, info_tx, session_id, chan, command_client >>
  /\ UNCHANGED sched_vars
  /\ UNCHANGED other_vars

\* handle_srcp_infomode: tell the bus about the new info client; the send
\* fails when the thread of the bus is gone, and expect() ends this thread,
\* which drops its TcpStream
InfoAnnounce(s) ==
  /\ Running
  /\ sess[s].pc = "announce"
  /\ IF ddl_pc = "panic"
       THEN /\ sess' = [sess EXCEPT ![s].pc = "panic", ![s].sock = FALSE]
            /\ rx' = rx
       ELSE /\ sess' = [sess EXCEPT ![s].pc = "forward"]
            /\ rx' = Append(rx, NewInfoClient(s))
  /\ UNCHANGED << now, watchdog, sent, info_tx, session_id, chan, info_client,
                  command_client >>
  /\ UNCHANGED sched_vars
  /\ UNCHANGED other_vars

\* handle_srcp_infomode: forward one message of the channel to the client
InfoForward(s) ==
  /\ Running
  /\ sess[s].pc = "forward"
  /\ chan[s] # << >>
  /\ sess' = [sess EXCEPT ![s] = Write(@, Line(Head(chan[s])), "forward")]
  /\ chan' = [chan EXCEPT ![s] = Tail(@)]
  /\ UNCHANGED << now, watchdog, sent, rx, info_tx, session_id, info_client,
                  command_client >>
  /\ UNCHANGED sched_vars
  /\ UNCHANGED other_vars

\* the client closes its connection
SocketDies(s) ==
  /\ Running
  /\ sess[s].pc \notin {"none", "ended", "panic"}
  /\ sess[s].sock
  /\ sess' = [sess EXCEPT ![s].sock = FALSE]
  /\ UNCHANGED << now, watchdog, sent, rx, info_tx, session_id, chan, info_client,
                  command_client >>
  /\ UNCHANGED sched_vars
  /\ UNCHANGED other_vars

\* ------------------------------------------------------------------------
\* Specification of the accessory handling: one command session sends GA
\* and POWER commands to the bus
\* ------------------------------------------------------------------------
MaxCmdsGA == 5
MaxTimeGA == 300
TickGA == 100
\* shortcut_delay of the configuration file, in ms
ShortcutDelay == 100

GaCmds ==
  { Cmd(1, "INIT", "GA", << "1", "M" >>),
    Cmd(1, "INIT", "GA", << "2", "M" >>),
    Cmd(1, "SET", "GA", << "1", "0", "1", "100" >>),
    Cmd(1, "SET", "GA", << "2", "1", "1", "100" >>),
    Cmd(1, "TERM", "GA", << "1" >>),
    Cmd(1, "SET", "POWER", << "ON" >>) }

InitGA == Init /\ watchdog = FALSE

NextGA ==
  \/ ClientSend(GaCmds, MaxCmdsGA)
  \/ Tick({TickGA}, MaxTimeGA)
  \/ LoopTop
  \/ Intake
  \/ Dispatch
  \/ Background({TRUE}, ShortcutDelay)
  \/ Dispatcher

SpecGA == InitGA /\ [][NextGA]_vars

\* the messages a scheduler step sends on the info channel
Emitted == SubSeq(info_tx', Len(info_tx) + 1, Len(info_tx'))

\* the telegrams and messages as sets
Elems(q) == {q[i] : i \in 1..Len(q)}

\* the entries of all_ga_delay for the decoder dek with the reason grund
DelayEntries(dek, grund) ==
  {i \in 1..Len(all_devices["GA"].all_ga_delay) :
     /\ all_devices["GA"].all_ga_delay[i].grund = grund
     /\ (all_devices["GA"].all_ga_delay[i].adr - 1) \div 4 = dek}

\* the decoders of the accessory addresses in use
Dekoder == {(a - 1) \div 4 : a \in 1..MAX_MM_GA_ADRESSE}

TimedOnBusyDecoder ==
  /\ queue # << >>
  /\ queue' = Tail(queue)
  /\ zweig' = "queue"
  /\ Head(queue).dev = "GA"
  /\ Parse(Head(queue).par[3]) # 0
  /\ ParseI32(Head(queue).par[4]) > 0
  /\ Parse(Head(queue).par[1]) \in DOMAIN all_devices["GA"].all_ga
  /\ DelayEntries((Parse(Head(queue).par[1]) - 1) \div 4, "Ausschalten") # {}

Due ==
  {i \in 1..Len(all_devices["GA"].all_ga_delay) :
     /\ all_devices["GA"].all_ga_delay[i].grund = "Ausschalten"
     /\ now > all_devices["GA"].all_ga_delay[i].zeit}

\* C9: once now > off_time the background step of the scheduler ships the
\* deactivation telegram of every due activation, emits
\* 100 INFO <bus> GA <addr> <port> 0 for it and drops its timer
C9_AutoOff ==
  [][(ddl_pc = "background" /\ ddl_pc' # "background" /\ ddl_power_on) =>
       \A i \in Due :
          LET e == all_devices["GA"].all_ga_delay[i] IN
          /\ [dev |-> "GA", adr |-> e.adr, port |-> e.port, value |-> 0] \in Elems(spi')
          /\ \E m \in Elems(Emitted) :
                Line(m) = "100 INFO 1 GA " \o to_string(e.adr) \o " "
                          \o to_string(e.port) \o " 0 "
          /\ e \notin Elems(all_devices'["GA"].all_ga_delay)]_vars


\* the pending entries of accessories that have been terminated
Verwaist ==
  {i \in 1..Len(all_devices["GA"].all_ga_delay) :
     all_devices["GA"].all_ga_delay[i].adr \notin DOMAIN all_devices["GA"].all_ga}

\* C37: the background step performs no auto-off and no deferred activation
\* for an accessory that has been terminated: with entries pending for such
\* an address the step ends without panic, the scheduler goes on with the
\* next iteration, and no telegram of the step is for that address
C37_TermGA ==
  [][(ddl_pc = "background" /\ ddl_pc' # "background" /\ Verwaist # {}) =>
       /\ ddl_pc' = "top"
       /\ \A i \in 1..Len(spi') :
            spi'[i].dev = "GA" => spi'[i].adr \in DOMAIN all_devices["GA"].all_ga]_vars

\* ------------------------------------------------------------------------
\* Specification of the locomotive handling: one command session sends GL
\* and POWER commands to the bus
\* ------------------------------------------------------------------------
MaxCmdsGL == 4
MaxTimeGL == 200
TickGL == 100

GlCmds ==
  { Cmd(1, "SET", "POWER", << "ON" >>),
    Cmd(1, "INIT", "GL", << "1", "M", "2", "14", "2" >>),
    Cmd(1, "SET", "GL", << "1", "1", "5", "14", "1", "0" >>),
    Cmd(1, "SET", "GL", << "1", "1", "10", "14", "0", "1" >>),
    Cmd(1, "SET", "GL", << "1", "1", "0", "14", "2", "2" >>),
    Cmd(1, "GET", "GL", << "1" >>),
    Cmd(1, "TERM", "GL", << "1" >>) }

InitGL == Init /\ watchdog = FALSE

NextGL ==
  \/ ClientSend(GlCmds, MaxCmdsGL)
  \/ Tick({TickGL}, MaxTimeGL)
  \/ LoopTop
  \/ Intake
  \/ Dispatch
  \/ Background({TRUE}, ShortcutDelay)
  \/ Dispatcher

SpecGL == InitGL /\ [][NextGL]_vars

\* the queue entries that are a SET for the locomotive address adr
QueuedSets(adr) ==
  {i \in 1..Len(queue) : queue[i].dev = "GL" /\ queue[i].code = "SET"
                         /\ get_adr(queue[i]) = adr}

\* C2: for every locomotive address that is initialized and not TERMed the
\* scheduler queue holds at most one SET at any time: a newly arriving GL
\* SET for the address has removed the older one
C2_OneSetPerAddress ==
  \A adr \in DOMAIN all_devices["GL"].all_gl : Cardinality(QueuedSets(adr)) <= 1

\* C2 case: a GL SET arrived while an older SET for its address was waiting
\* in the queue, and replaced it
C2_Witness ==
  /\ zweig = "replaced"
  /\ \E adr \in DOMAIN all_devices["GL"].all_gl : Cardinality(QueuedSets(adr)) = 1

\* the OK and ERROR messages the latest validate_cmd call sent
Replies == {i \in 1..Len(validiert.out) : validiert.out[i].kind \in {"OK", "ERROR"}}

\* C5: validate_cmd of a device handler emits exactly one OK or ERROR
\* message on the info channel, never none and never more than one, and
\* returns its boolean
C5_OneReply ==
  validiert.called => (Cardinality(Replies) = 1 /\ ~validiert.panic)

\* the queue holds SETs for GL and GA only, oldest arrival first
QueueFifo ==
  /\ Len(queue_nr) = Len(queue)
  /\ \A i \in 1..Len(queue) :
        /\ queue[i].code = "SET"
        /\ queue[i].dev \in {"GL", "GA"}
        /\ queue_nr[i] <= arrivals
        /\ \A j \in 1..Len(queue) : i < j => queue_nr[i] < queue_nr[j]

\* C6 (amended): a command that is executed immediately takes effect when
\* it is taken in, in arrival order; the queue holds only SETs for GL and GA
\* and these take effect oldest arrival first.  So a GET, INIT or TERM has
\* taken effect before any SET that arrives after it
C6_Order ==
  [][/\ QueueFifo'
     /\ eff_nr' # eff_nr =>
          \/ /\ arrivals' = arrivals + 1
             /\ eff_nr' = arrivals'
             /\ Sofort(Head(rx))
          \/ /\ arrivals' = arrivals
             /\ queue # << >>
             /\ eff_nr' = Head(queue_nr)
             /\ queue' = Tail(queue)]_vars

\* C6 case: a queued SET takes effect after a command that arrived later
\* has taken effect
C6_Witness ==
  /\ zweig = "queue"
  /\ eff_nr < arrivals
  /\ all_devices["GL"].all_gl # << >>

\* C6 as stated: commands take effect in strict arrival order
C6_ArrivalOrder == [][eff_nr' >= eff_nr]_vars

\* ------------------------------------------------------------------------
\* Specification of the watchdog: the option is on, one command session
\* sends a few commands and falls silent.  Every step of the scheduler loop
\* and the dispatcher run in threads of their own, so each is taken when it
\* stays possible.
\* ------------------------------------------------------------------------
MaxCmdsWD == 2
MaxTimeWD == 3000
TickWD == 1000

WdCmds ==
  { Cmd(1, "SET", "POWER", << "ON" >>),
    Cmd(1, "GET", "POWER", << >>),
    Cmd(1, "INIT", "GL", << "1", "M", "2", "14", "2" >>),
    Cmd(1, "TERM", "GL", << >>) }

InitWD == Init /\ watchdog = TRUE

NextWD ==
  \/ ClientSend(WdCmds, MaxCmdsWD)
  \/ Tick({TickWD}, MaxTimeWD)
  \/ LoopTop
  \/ Intake
  \/ Dispatch
  \/ Background({TRUE}, ShortcutDelay)
  \/ Dispatcher

FairSpecWD ==
  /\ InitWD
  /\ [][NextWD]_vars
  /\ WF_vars(LoopTop)
  /\ WF_vars(Intake)
  /\ WF_vars(Dispatch)
  /\ WF_vars(Background({TRUE}, ShortcutDelay))
  /\ WF_vars(Dispatcher)

\* power is on, the last command arrived more than 2 s ago and no further
\* command is on its way
WatchdogDue ==
  /\ watchdog
  /\ all_devices["POWER"].power_on
  /\ now > instant_kommando + WATCHDOG_TIMEOUT
  /\ rx = << >>
  /\ sent = MaxCmdsWD

\* C10: when the watchdog option is on and no command has arrived for 2 s,
\* the scheduler synthesizes SET POWER OFF for its bus, so that power goes
\* off
C10_Watchdog == WatchdogDue ~> ~all_devices["POWER"].power_on

\* ------------------------------------------------------------------------
\* Specification of the session layer: clients connect in command or info
\* mode, command sessions send lines, connections break
\* ------------------------------------------------------------------------
MaxLines == 2
MaxTimeSrcp == 500
TickSrcp == 500

SrcpLines ==
  { << "SET", "1", "POWER", "ON" >>,
    << "TERM", "1", "GL" >>,
    << "GET", "2", "POWER" >>,
    << "GO" >> }

Next ==
  \/ Accept({"command", "info"})
  \/ \E s \in Sessions : CmdRegister(s)
  \/ \E s \in Sessions : CmdReadLine(s, SrcpLines, MaxLines)
  \/ \E s \in Sessions : CmdEof(s)
  \/ \E s \in Sessions : CmdReply(s)
  \/ \E s \in Sessions : CmdTimeout(s)
  \/ \E s \in Sessions : InfoRegister(s)
  \/ \E s \in Sessions : InfoAnnounce(s)
  \/ \E s \in Sessions : InfoForward(s)
  \/ \E s \in Sessions : SocketDies(s)
  \/ Tick({TickSrcp}, MaxTimeSrcp)
  \/ LoopTop
  \/ Intake
  \/ Dispatch
  \/ Background({TRUE}, ShortcutDelay)
  \/ Dispatcher

InitSrcp == Init /\ watchdog = FALSE

Spec == InitSrcp /\ [][Next]_vars

\* the threads of the bus, of the dispatcher and of every session run on
\* their own: a step that stays possible is taken
FairSpec ==
  /\ InitSrcp
  /\ [][Next]_vars
  /\ WF_vars(LoopTop)
  /\ WF_vars(Intake)
  /\ WF_vars(Dispatch)
  /\ WF_vars(Background({TRUE}, ShortcutDelay))
  /\ WF_vars(Dispatcher)
  /\ \A s \in Sessions : WF_vars(InfoAnnounce(s))
  /\ \A s \in Sessions : WF_vars(InfoForward(s))

\* C1: for each command line a command session has read, exactly one line
\* is written to its socket before any line answering the next command
\* (a session whose connection broke has left its loop)
C1_OneReplyPerCommand ==
  \A s \in Sessions :
     sess[s].mode = "command" =>
       \/ sess[s].n_written = sess[s].n_read
       \/ sess[s].pc = "wait" /\ sess[s].n_written + 1 = sess[s].n_read
       \/ sess[s].pc = "ended"


\* session s forwards the oldest message of its channel in this step
Forwards(s) ==
  /\ sess[s].mode = "command" /\ sess[s].pc = "wait"
  /\ chan[s] # << >> /\ chan'[s] = Tail(chan[s])
  /\ sess'[s].n_written = sess[s].n_written + 1

\* C39: the line a command session forwards in answer to command k is a
\* reply the bus produced for command k: with one reply of the bus per
\* command, the message it forwards is as many-th of its channel as the
\* command it waits for is of the commands it handed to the bus; so a reply
\* that comes after the timeout of k is never the answer to a later command
C39_ReplyOfCommand ==
  [][\A s \in Sessions : Forwards(s) => sess[s].n_chan + 1 = sess[s].n_bus]_vars

\* the dispatcher takes the oldest message from the info channel
DispatchStep == info_tx # << >> /\ info_tx' = Tail(info_tx)

\* the subscribers an event is meant for
Receives(s, m) ==
  \/ s \in Elems(info_client) /\ (m.sid = None \/ m.sid = s)
  \/ s \in Elems(command_client) /\ m.sid = s

\* C3 (amended): the dispatcher delivers an event without session id to
\* every registered info client and to no command client, and an event with
\* a session id to exactly the registered info and command clients with
\* that id; a subscriber whose channel is closed is removed instead
C3_Delivery ==
  [][DispatchStep =>
       \A s \in Sessions :
          /\ (Receives(s, Head(info_tx)) /\ sess[s].pc \notin {"none", "ended", "panic"})
               => chan'[s] = Append(chan[s], Head(info_tx))
          /\ ~(Receives(s, Head(info_tx)) /\ sess[s].pc \notin {"none", "ended", "panic"})
               => chan'[s] = chan[s]
          /\ (Receives(s, Head(info_tx)) /\ sess[s].pc \in {"ended", "panic"})
               => s \notin Elems(info_client') \cup Elems(command_client')]_vars

\* C3 case: the reply to a command session has been delivered to it while
\* an info client was registered, which did not get it
C3_Witness ==
  \E c \in Elems(command_client), i \in Elems(info_client) :
     /\ sess[i].pc = "forward"
     /\ chan[c] # << >>
     /\ chan[c][Len(chan[c])].sid = c
     /\ chan[c][Len(chan[c])] \notin Elems(chan[i])
     /\ info_tx = << >>

\* C3 as stated: every event is delivered to every registered info client
C3_Unconditional ==
  [][DispatchStep =>
       \A s \in Elems(info_client) :
          sess[s].pc \notin {"none", "ended", "panic"}
            => chan'[s] = Append(chan[s], Head(info_tx))]_vars

\* C4: an info-mode subscriber that is registered when a state change
\* (power goes on) is reported observes the resulting INFO line at least
\* once, unless its socket dies first
C4_Observes ==
  \A s \in Sessions :
     (s \in Elems(info_client) /\ new_info(None, "POWER", << "ON" >>) \in Elems(info_tx))
       ~> (sess[s].written = "100 INFO 1 POWER ON " \/ ~sess[s].sock)

\* C4 case: an info session has seen the state of the bus when it
\* registered and after that the line of a state change
C4_Witness ==
  \E s \in Sessions :
     /\ sess[s].mode = "info"
     /\ sess[s].sock
     /\ sess[s].n_written >= 2
     /\ sess[s].written = "100 INFO 1 POWER ON "

\* ------------------------------------------------------------------------
\* Specification of the power handling: command sessions switch the power
\* of the bus on and off, the watchdog option is on or off, the booster
\* reports a short circuit or none
\* ------------------------------------------------------------------------
MaxCmdsPW == 4
MaxTimePW == 2200
\* two steps of time are a silence long enough for the watchdog
TickPW == 1100

PwCmds ==
  { Cmd(1, "SET", "POWER", << "ON" >>),
    Cmd(2, "SET", "POWER", << "OFF" >>),
    Cmd(1, "INIT", "GL", << "1", "M", "2", "14", "2" >>),
    Cmd(1, "SET", "GL", << "1", "1", "5", "14", "1", "0" >>) }

NextPW ==
  \/ ClientSend(PwCmds, MaxCmdsPW)
  \/ Tick({TickPW}, MaxTimePW)
  \/ LoopTop
  \/ Intake
  \/ Dispatch
  \/ Background({TRUE, FALSE}, ShortcutDelay)
  \/ Dispatcher

SpecPW == Init /\ [][NextPW]_vars

\* this step of the scheduler dispatches the oldest queued SET or emits a
\* refresh telegram
QueueOrRefresh ==
  /\ ddl_pc = "intake"
  /\ rx' = rx
  /\ ddl_pc' # "intake"
  /\ zweig' \in {"queue", "refresh"}

\* C11: no queued SET is dispatched and no refresh telegram is emitted
\* during the first 100 ms after power was switched on
C11_PowerOnDelay ==
  [][QueueOrRefresh =>
       ~(/\ all_devices["POWER"].power_on
         /\ now < all_devices["POWER"].power_on_zeitpunkt + DELAY_POWER_ON_MELDUNG)]_vars


\* C35: in a scheduler iteration whose intake phase has switched the power
\* off, no queued SET is dispatched and no refresh telegram is emitted
C35_NoTelegramAfterOff ==
  [][QueueOrRefresh /\ ~all_devices["POWER"].power_on =>
       zweig' = "refresh" /\ spi' = << >>]_vars
\* the power state of the bus changes in this step
PowerTransition == all_devices'["POWER"].power_on # all_devices["POWER"].power_on

\* C12: every transition of the power state (by a SET, the watchdog or the
\* booster supervision) emits 100 INFO <bus> POWER <ON|OFF> with the new
\* state, addressed to all info clients (no session id)
C12_TransitionInfo ==
  [][PowerTransition =>
       \E m \in Elems(Emitted) :
          /\ m.sid = None
          /\ Line(m) = "100 INFO 1 POWER "
                       \o (IF all_devices'["POWER"].power_on THEN "ON " ELSE "OFF ")]_vars

\* C12 case: the watchdog has switched the power off and the INFO is on the
\* info channel
C12_Witness ==
  /\ zweig = "watchdog"
  /\ ~all_devices["POWER"].power_on
  /\ info_tx = << new_info(None, "POWER", << "OFF" >>) >>

\* C13: the session ids given to connections are the values 1, 2, 3, ... of
\* a counter, each one more than the one before; id 0 is never given to a
\* client, and no command a client hands to the bus carries it
C13_SessionIds ==
  [][/\ sess'[0] = NoSession
     /\ \A i \in 1..Len(rx') : rx'[i].sid # 0
     /\ \A s \in DOMAIN sess : sess'[s].mode # "none" => (1 <= s /\ s <= session_id')
     /\ session_id' # session_id =>
          /\ session_id' = session_id + 1
          /\ sess[session_id'].mode = "none"
          /\ sess'[session_id'].pc = "register"]_vars

\* C13 case: two connections have been accepted, the second after the first
C13_Witness ==
  /\ session_id = 2
  /\ sess[1].mode # "none"
  /\ sess[2].mode # "none"
  /\ rx # << >>
\* ------------------------------------------------------------------------
\* The process (main.rs): the thread "Cleanup" waits for SIGTERM, SIGINT,
\* SIGHUP or SIGQUIT
\* ------------------------------------------------------------------------
\* the pause of terminate_poweroff before process::exit, in ms
TERMINATE_PAUSE == 200

\* terminate_poweroff: a signal arrives, SET POWER OFF with session id 0 is
\* sent to the bus (a failed send is only logged), then the thread sleeps
Terminate ==
  /\ cleanup.pc = "wait"
  /\ rx' = IF ddl_pc = "panic" THEN rx
           ELSE Append(rx, Cmd(0, "SET", "POWER", << "OFF" >>))
  /\ cleanup' = [pc |-> "sleep", seit |-> now]
  /\ UNCHANGED << now, watchdog, sent, info_tx, pid_file >>
  /\ UNCHANGED sched_vars
  /\ UNCHANGED srcp_vars
  /\ UNCHANGED << mfx_vars, overflow_checks, io_vars >>

\* terminate_poweroff: the pause is over, process::exit(0) ends the process.
\* The call does not return, so the del_pidfile() that follows
\* terminate_poweroff in the closure of the thread is not reached.
ProcessExit ==
  /\ cleanup.pc = "sleep"
  /\ now >= cleanup.seit + TERMINATE_PAUSE
  /\ cleanup' = [cleanup EXCEPT !.pc = "exited"]
  /\ UNCHANGED << now, watchdog, sent, pid_file >>
  /\ UNCHANGED ddl_vars
  /\ UNCHANGED srcp_vars
  /\ UNCHANGED << mfx_vars, overflow_checks, io_vars >>

\* ------------------------------------------------------------------------
\* Specification of the termination: a command session switches power while
\* a signal may arrive at any time
\* ------------------------------------------------------------------------
MaxCmdsTerm == 2
MaxTimeTerm == 300
TickTerm == 100

TermCmds ==
  { Cmd(1, "SET", "POWER", << "ON" >>),
    Cmd(1, "GET", "POWER", << >>) }

InitTerm == Init /\ watchdog = FALSE

NextTerm ==
  \/ ClientSend(TermCmds, MaxCmdsTerm)
  \/ Tick({TickTerm}, MaxTimeTerm)
  \/ LoopTop
  \/ Intake
  \/ Dispatch
  \/ Background({TRUE}, ShortcutDelay)
  \/ Dispatcher
  \/ Terminate
  \/ ProcessExit

SpecTerm == InitTerm /\ [][NextTerm]_vars

\* C14: on a signal the process sends SET POWER OFF to the bus, sleeps
\* 200 ms, deletes the PID file and exits: when the process has terminated
\* the PID file is gone
C14_PidFileRemoved == cleanup.pc = "exited" => ~pid_file

\* a line that is no command (too short, unknown command word, bus that is
\* no number, unknown device group) or that names a bus that does not exist
BadLine(l) ==
  \/ Len(l) < 3
  \/ l[1] \notin {"GET", "SET", "VERIFY", "INIT", "TERM"}
  \/ ~ParseOk(l[2])
  \/ l[3] \notin {"GA", "GL", "FB", "SM", "POWER"}
  \/ Parse(l[2]) # BusNr

\* the error line for a bad line: the parser's error, or 412 for the bus
ErrorLine(s, l) ==
  IF SRCPMessageFrom(s, l).ok THEN "412 ERROR wrong value" ELSE SRCPMessageFrom(s, l).err

\* C15: a command line that fails to parse or that names an unknown bus is
\* answered by the session itself with one error line and is not forwarded
\* to the bus scheduler
C15_NotForwarded ==
  [][\A s \in Sessions, l \in SrcpLines :
       (BadLine(l) /\ CmdReadLine(s, {l}, MaxLines)) =>
          /\ rx' = rx
          /\ sess'[s].n_written = sess[s].n_written + 1
          /\ sess'[s].written = ErrorLine(s, l)
          /\ sess'[s].written \in {"419 ERROR list too short", "410 ERROR unknown command",
                                   "412 ERROR wrong value", "421 ERROR unsupported device"}
          /\ sess'[s].pc = "read"]_vars

\* C15 case: a session has got the error line for a line that is no command
\* and nothing has reached the bus
C15_Witness ==
  \E s \in Sessions :
     /\ sess[s].mode = "command"
     /\ sess[s].written = "419 ERROR list too short"
     /\ sess[s].n_read = sess[s].n_written
     /\ rx = << >>
     /\ arrivals = 0


\* ------------------------------------------------------------------------
\* Specification of the service mode: command sessions send SM and POWER
\* lines, the helper tasks of the DCC and MFX codecs work on the jobs
\* ------------------------------------------------------------------------
MaxLinesSM == 3
MaxTimeSM == 500
TickSM == 500

SmLines ==
  { << "INIT", "1", "SM", "NMRA" >>,
    << "INIT", "1", "SM", "MFX" >>,
    << "INIT", "1", "SM" >>,
    << "VERIFY", "1", "SM", "01", "CV", "1", "5" >>,
    << "SET", "1", "SM", "5", "CAMFX", "1", "2", "3", "4", "7" >> }

\* the decoders on the track: one whose CVs hold 5, none, and one with the
\* acknowledge input stuck active
DccDekoder ==
  { [da |-> TRUE, wert |-> 5, ack_vorher |-> FALSE],
    [da |-> FALSE, wert |-> 5, ack_vorher |-> FALSE],
    [da |-> TRUE, wert |-> 5, ack_vorher |-> TRUE] }

MfxDekoder ==
  { [gefunden |-> TRUE, gelesen |-> Some(7)],
    [gefunden |-> TRUE, gelesen |-> Nichts],
    [gefunden |-> FALSE, gelesen |-> Nichts] }

NextSM ==
  \/ Accept({"command"})
  \/ \E s \in Sessions : CmdRegister(s)
  \/ \E s \in Sessions : CmdReadLine(s, SmLines, MaxLinesSM)
  \/ \E s \in Sessions : CmdReply(s)
  \/ \E s \in Sessions : CmdTimeout(s)
  \/ Tick({TickSM}, MaxTimeSM)
  \/ LoopTop
  \/ Intake
  \/ Dispatch
  \/ Background({TRUE}, ShortcutDelay)
  \/ Dispatcher
  \/ DccProg("2", DccDekoder)
  \/ MfxRds(MfxDekoder)

SpecSM == InitSrcp /\ [][NextSM]_vars

\* an INIT for SM that names a protocol the device knows
SmInit(msg) ==
  /\ msg.kind = "CMD" /\ msg.dev = "SM" /\ msg.code = "INIT"
  /\ Len(msg.par) >= 1 /\ msg.par[1] \in DOMAIN gl_ga_prot_names

Erfolg(ans) == ans.val.typ \in {"ResultOk", "Write"}

\* C17: the answer of a helper to an SM job goes back as one SM event for
\* the session that sent the job: 200 OK with the value as last parameter
\* when the helper carried the job out, 412 ERROR wrong value when the
\* decoder refused or the verify did not match
C17_SmResponse ==
  [][(ddl_pc = "background" /\ ddl_pc' = "top")
       => \A c \in Elems(SmCodecs) :
            LET i == ErsterVon(all_devices["SM"].antworten, c, 1)
                ans == all_devices["SM"].antworten[i]
            IN  i # 0 =>
                  \E m \in Elems(Emitted) :
                     /\ m.dev = "SM"
                     /\ m.sid = ans.session_id
                     /\ IF Erfolg(ans)
                          THEN /\ m.kind = "OK" /\ m.code = "200"
                               /\ m.par[Len(m.par)] = to_string(ans.val.v)
                          ELSE Line(m) = "412 ERROR wrong value"]_vars


\* a VERIFY for a CV byte that passes the checks of validate_cmd
VerifyCv(msg) ==
  /\ msg.kind = "CMD" /\ msg.dev = "SM" /\ msg.code = "VERIFY"
  /\ Len(msg.par) = 4 /\ msg.par[2] = DCC_SM_TYPE_CV
  /\ \A i \in {1, 3, 4} : ParseOk(msg.par[i])

\* the scheduler takes a valid VERIFY for a CV from the command channel
\* while a DCC session is active
VerifyCvTaken ==
  /\ ddl_pc = "intake" /\ rx # << >> /\ rx' = Tail(rx)
  /\ VerifyCv(Head(rx))
  /\ all_devices["SM"].sm_protokoll # << >>
  /\ all_devices["SM"].sm_protokoll[1] = "N"

MaxCmdsAdr == 2

AdrCmds ==
  { Cmd(1, "INIT", "GL", << "0", "N", "1", "28", "5" >>),
    Cmd(1, "INIT", "GL", << "127", "N", "1", "28", "5" >>),
    Cmd(1, "INIT", "GL", << "128", "N", "1", "28", "5" >>),
    Cmd(1, "INIT", "GL", << "128", "N", "2", "28", "5" >>),
    Cmd(1, "INIT", "GL", << "10239", "N", "2", "28", "5" >>),
    Cmd(1, "INIT", "GL", << "10240", "N", "2", "28", "5" >>),
    Cmd(1, "INIT", "GL", << "0", "X", "0", "128", "16", "77" >>),
    Cmd(1, "INIT", "GL", << "16383", "X", "0", "128", "16", "77" >>),
    Cmd(1, "INIT", "GL", << "16384", "X", "0", "128", "16", "77" >>),
    Cmd(1, "INIT", "GL", << "80", "M", "2", "14", "5" >>),
    Cmd(1, "INIT", "GL", << "81", "M", "2", "14", "5" >>) }

NextAdr ==
  \/ ClientSend(AdrCmds, MaxCmdsAdr)
  \/ LoopTop
  \/ Intake
  \/ Dispatch
  \/ Background({TRUE}, ShortcutDelay)
  \/ Dispatcher

SpecAdr == InitGL /\ [][NextAdr]_vars

\* the scheduler takes a GL INIT from the command channel that is complete
\* but for the range of its address: protocol and version are known, the
\* UID is there where the protocol needs it, all numbers are numbers
GlInitTaken ==
  /\ ddl_pc = "intake" /\ rx # << >> /\ rx' = Tail(rx)
  /\ LET msg == Head(rx) IN
     /\ msg.kind = "CMD" /\ msg.dev = "GL" /\ msg.code = "INIT"
     /\ Len(msg.par) >= 5
     /\ msg.par[2] \in {"M", "N", "X"}
     /\ msg.par[2] = "N" => msg.par[3] \in {"1", "2"}
     /\ msg.par[2] = "X" => msg.par[3] = "0" /\ Len(msg.par) >= 6
     /\ msg.par[2] = "M" => msg.par[3] \in {"1", "2", "3", "5"}
     /\ \A i \in 1..Len(msg.par) : i \in {2, 3, 7} \/ ParseOk(msg.par[i])

\* the INIT taken in this step is accepted: the locomotive is entered, its
\* INFO and 200 OK are sent
GlInitAccepted ==
  LET msg == Head(rx) IN
  /\ Parse(msg.par[1]) \in DOMAIN all_devices'["GL"].all_gl
  /\ all_devices'["GL"].all_gl[Parse(msg.par[1])].protokoll = msg.par[2]
  /\ all_devices'["GL"].all_gl[Parse(msg.par[1])].protokoll_version = msg.par[3]
  /\ \E m \in Elems(Emitted) : Line(m) = "200 OK 1 GL " /\ m.sid = msg.sid

\* the INIT taken in this step is refused with 412 ERROR wrong value and
\* nothing else happens
GlInitRefused ==
  /\ Emitted = << new_err(Head(rx), "412", "wrong value") >>
  /\ Line(Emitted[1]) = "412 ERROR wrong value"
  /\ all_devices' = all_devices
  /\ queue' = queue

\* C19: a GL INIT is accepted exactly when its address is in 1..maximum of
\* the protocol and refused with 412 ERROR wrong value otherwise; the
\* maximum is 127 for DCC version 1, 10239 for DCC version 2 and 16383 for
\* MFX, so that 0 is refused, 127 is accepted with DCC version 1, 128 is
\* accepted with version 2 only, and MFX 16384 is refused
C19_GlInitAddress ==
  [][GlInitTaken =>
       LET msg == Head(rx)
           adr == Parse(msg.par[1])
           max == CASE msg.par[2] = "N" /\ msg.par[3] = "1" -> MAX_DCC_GL_ADRESSE_KURZ
                    [] msg.par[2] = "N" -> MAX_DCC_GL_ADRESSE_LANG
                    [] msg.par[2] = "X" -> MAX_MFX_GL_ADRESSE
                    [] OTHER -> MAX_MM_ADRESSE
       IN  IF adr >= 1 /\ adr <= max THEN GlInitAccepted ELSE GlInitRefused]_vars

\* address 127 is initialized with DCC version 1, and the INIT of address
\* 128 with DCC version 1 has just been refused
C19_Witness ==
  /\ 127 \in DOMAIN all_devices["GL"].all_gl
  /\ all_devices["GL"].all_gl[127].protokoll_version = "1"
  /\ zweig = "rejected"
  /\ info_tx = << new_err(Cmd(1, "INIT", "GL", << "128", "N", "1", "28", "5" >>),
                          "412", "wrong value") >>


\* ------------------------------------------------------------------------
\* Specification of the CV access: a command session opens a DCC service
\* mode session and sends jobs at and beyond the limits of CV number and
\* bit number, on the programming track and on the main track
\* ------------------------------------------------------------------------
MaxCmdsProg == 3
MaxTimeProg == 200
TickProg == 200

ProgCmds ==
  { Cmd(1, "INIT", "SM", << "NMRA" >>),
    Cmd(1, "SET", "POWER", << "ON" >>),
    Cmd(1, "SET", "SM", << "3", "CV", "1", "5" >>),
    Cmd(1, "SET", "SM", << "3", "CV", "1025", "5" >>),
    Cmd(1, "SET", "SM", << "3", "CV", "0", "5" >>),
    Cmd(1, "VERIFY", "SM", << "3", "CVBIT", "1", "8", "1" >>),
    Cmd(1, "GET", "SM", << "3", "CVBIT", "1", "2" >>) }

NextProg ==
  \/ ClientSend(ProgCmds, MaxCmdsProg)
  \/ Tick({TickProg}, MaxTimeProg)
  \/ LoopTop
  \/ Intake
  \/ Dispatch
  \/ Background({TRUE}, ShortcutDelay)
  \/ Dispatcher
  \/ DccProg("2", DccDekoder)

SpecProg == InitGL /\ [][NextProg]_vars

\* the helper of the DCC codec takes a job in this step
ProgJobTaken ==
  /\ Len(all_devices'["SM"].jobs) < Len(all_devices["SM"].jobs)
  /\ ErsterVon(all_devices["SM"].jobs, << "N", "2" >>, 1) # 0

\* the job the helper takes
ProgJob == all_devices["SM"].jobs[ErsterVon(all_devices["SM"].jobs, << "N", "2" >>, 1)]

\* C20: a job with CV bit number 8, or with CV number 0 or 1025, is
\* rejected by the helper: its answer is the error (which goes out as
\* 412 ERROR wrong value) and no telegram is ordered from the codec
C20_CvRangeRejected ==
  [][(/\ ProgJobTaken
      /\ \/ ProgJob.sm_type = DCC_SM_TYPE_CVBIT /\ ProgJob.para[2] = 8
         \/ ProgJob.para[1] \in {0, MAX_CV + 1})
       => /\ all_devices'["SM"].cv_tel = all_devices["SM"].cv_tel
          /\ LET ant == all_devices'["SM"].antworten
             IN  ant[Len(ant)].val.typ = "ResultErr"]_vars


\* ------------------------------------------------------------------------
\* Specification of the MFX registration: power is switched on, the codec
\* searches the decoders on the track, the process is restarted at any time
\* ------------------------------------------------------------------------
MaxCmdsReg == 1
MaxTimeReg == 100
TickReg == 100

RegCmds == { Cmd(1, "SET", "POWER", << "ON" >>) }

\* the counter files a start can find: none, one that holds no number, one
\* that an earlier run has written
RegFiles == { Nichts, Some("x"), Some("1"), Some("65534") }

\* the decoders on the track: UIDs 0x80000001 and 0x00000003
RegDekoder == { {1, 32}, {31, 32} }

InitReg ==
  /\ InitBus /\ watchdog = FALSE
  /\ InitMfx(RegFiles, {RegDekoder})
  /\ overflow_checks \in BOOLEAN

NextReg ==
  \/ ClientSend(RegCmds, MaxCmdsReg)
  \/ Tick({TickReg}, MaxTimeReg)
  \/ LoopTop
  \/ Intake
  \/ Dispatch
  \/ Background({TRUE}, ShortcutDelay)
  \/ Dispatcher
  \/ MfxSuche(BOOLEAN)
  \/ Neustart

SpecReg == InitReg /\ [][NextReg]_vars

\* a decoder has been found in this step
Entdeckt == gleis' # gleis

\* C21: the MFX registration counter never decreases, restarts of the
\* process included, and it goes up by exactly 1 with every decoder that is
\* found and by nothing else
C21_RegCounter ==
  [][ /\ mfx'.reg_counter >= mfx.reg_counter
      /\ Entdeckt => mfx'.reg_counter = mfx.reg_counter + 1
      /\ ~Entdeckt /\ ~Neustart => mfx'.reg_counter = mfx.reg_counter ]_vars


\* ------------------------------------------------------------------------
\* Specification of the locomotive information: a command session
\* initializes locomotives, with few and with more than 64 functions, and
\* asks for their state
\* ------------------------------------------------------------------------
MaxCmdsInfo == 3

InfoCmds ==
  { Cmd(1, "INIT", "GL", << "1", "M", "2", "14", "2" >>),
    Cmd(1, "INIT", "GL", << "1", "N", "1", "28", "5" >>),
    Cmd(1, "INIT", "GL", << "2", "X", "0", "127", "65", "77" >>),
    Cmd(1, "GET", "GL", << "1" >>),
    Cmd(1, "GET", "GL", << "2" >>) }

InitInfo == InitBus /\ watchdog = FALSE /\ InitMfx({Nichts}, {{}}) /\ overflow_checks \in BOOLEAN

NextInfo ==
  \/ ClientSend(InfoCmds, MaxCmdsInfo)
  \/ LoopTop
  \/ Intake
  \/ Dispatch
  \/ Background({TRUE}, ShortcutDelay)
  \/ Dispatcher

SpecInfo == InitInfo /\ [][NextInfo]_vars

\* the scheduler takes a GL command with the command word code
GlTaken(code) ==
  /\ ddl_pc = "intake" /\ rx # << >> /\ rx' = Tail(rx)
  /\ Head(rx).kind = "CMD" /\ Head(rx).dev = "GL" /\ Head(rx).code = code

\* C22: an INIT GL A p v s n enters the locomotive with these values, and
\* a GET GL A for a locomotive that is entered sends an INFO line to the
\* session that carries the protocol, the version, the speed steps and the
\* function count of the locomotive
C22_GetMatchesInit ==
  [][/\ GlTaken("INIT") =>
          LET msg == Head(rx)
              gl == all_devices'["GL"].all_gl[Parse(msg.par[1])]
          IN  /\ gl.protokoll = msg.par[2]
              /\ gl.protokoll_version = msg.par[3]
              /\ gl.protokoll_speedsteps = Parse(msg.par[4])
              /\ gl.protokoll_number_functions = Parse(msg.par[5])
     /\ GlTaken("GET") /\ Parse(Head(rx).par[1]) \in DOMAIN all_devices["GL"].all_gl =>
          LET msg == Head(rx)
              gl == all_devices["GL"].all_gl[Parse(msg.par[1])]
          IN  \E m \in Elems(Emitted) :
                /\ m.kind = "INFO" /\ m.dev = "GL" /\ m.sid = msg.sid
                /\ Len(m.par) >= 5
                /\ SubSeq(m.par, 1, 5) =
                     << msg.par[1], gl.protokoll, gl.protokoll_version,
                        to_string(gl.protokoll_speedsteps),
                        to_string(gl.protokoll_number_functions) >>]_vars


\* ------------------------------------------------------------------------
\* Specification of the Maerklin Motorola addresses: a command session
\* switches power on, initializes locomotives at the upper end of the
\* address range and drives them
\* ------------------------------------------------------------------------
MaxCmdsMM == 3
MaxTimeMM == 100
TickMM == 100

MmCmds ==
  { Cmd(1, "SET", "POWER", << "ON" >>),
    Cmd(1, "INIT", "GL", << "80", "M", "2", "14", "2" >>),
    Cmd(1, "INIT", "GL", << "81", "M", "2", "14", "2" >>),
    Cmd(1, "INIT", "GL", << "79", "M", "1", "14", "1" >>),
    Cmd(1, "SET", "GL", << "80", "1", "5", "14", "1", "0" >>) }

NextMM ==
  \/ ClientSend(MmCmds, MaxCmdsMM)
  \/ Tick({TickMM}, MaxTimeMM)
  \/ LoopTop
  \/ Intake
  \/ Dispatch
  \/ Background({TRUE}, ShortcutDelay)
  \/ Dispatcher

SpecMM == InitGL /\ [][NextMM]_vars

\* the INIT of the MM locomotive 80 taken in this step is accepted
Init80Accepted ==
  GlTaken("INIT") /\ Head(rx).par[1] = "80" /\ Head(rx).par[2] = "M" =>
    /\ 80 \in DOMAIN all_devices'["GL"].all_gl
    /\ \E m \in Elems(Emitted) : Line(m) = "200 OK 1 GL " /\ m.sid = Head(rx).sid

\* the telegrams of the step that go to the locomotive 80
Tel80 == {t \in Elems(spi') : t.dev = "GL" /\ t.adr = 80}

\* C23 (amended): MM locomotive address 80 is accepted by INIT and is put
\* on the wire as address 0: its four address trits are L L L L.  The MM
\* idle telegram has the address trits O O O O, which is wire address 80.
C23_Adr80AsZero ==
  [][/\ Init80Accepted
     /\ \A t \in Tel80 :
          /\ t.adr_daten = MM_BIT_L \o MM_BIT_L \o MM_BIT_L \o MM_BIT_L
          /\ t.adr_daten # mm_idle_adr
     /\ \A t \in Elems(spi') :
          t.dev = "M" => t.adr_daten = MM_BIT_O \o MM_BIT_O \o MM_BIT_O \o MM_BIT_O]_vars

\* C23 case: locomotive 80 is initialized with MM and a telegram for it has
\* just been shipped
C23_Witness ==
  /\ 80 \in DOMAIN all_devices["GL"].all_gl
  /\ all_devices["GL"].all_gl[80].protokoll = "M"
  /\ \E i \in 1..Len(spi) : spi[i].dev = "GL" /\ spi[i].adr = 80

\* C23 as stated: MM locomotive address 80 is accepted by INIT and is put
\* on the wire with the address trits O O O O, the address encoding of the
\* MM idle telegram
C23_Adr80AsIdle ==
  [][/\ Init80Accepted
     /\ \A t \in Tel80 :
          /\ t.adr_daten = MM_BIT_O \o MM_BIT_O \o MM_BIT_O \o MM_BIT_O
          /\ t.adr_daten = mm_idle_adr]_vars


\* ------------------------------------------------------------------------
\* Specification of the command line: a command session reads one
\* well-formed line, in upper or lower case, with or without a carriage
\* return before the newline, parses it and writes the message as a string
\* ------------------------------------------------------------------------
\* handle_srcp_commandmode up to SRCPMessage::from, and SRCPMessage::to_string
\* of the result
ParseSerialize(lines) ==
  /\ Running
  /\ \E bytes \in lines :
       LET p == SRCPMessageFrom(1, split_unquoted_char(read_line(bytes), "")) IN
       zeile' = [pc |-> IF p.ok THEN "ok" ELSE "err",
                 bytes |-> bytes,
                 text |-> IF p.ok THEN Line(p.msg) ELSE p.err]
  /\ UNCHANGED << now, watchdog, sent, main_vars, mfx_vars, overflow_checks, cmd_line, hs >>
  /\ UNCHANGED ddl_vars
  /\ UNCHANGED srcp_vars

Leer == << " " >>

\* the well-formed lines in upper case: command word, bus, device group
\* and parameters, separated by one space
GrossZeilen ==
  { wort \o Leer \o bus \o Leer \o dev \o par :
      wort \in { << "G", "E", "T" >>, << "S", "E", "T" >>, << "I", "N", "I", "T" >>,
                 << "T", "E", "R", "M" >> },
      bus \in { << "1" >> },
      dev \in { << "G", "A" >>, << "G", "L" >>, << "F", "B" >>, << "S", "M" >>,
                << "P", "O", "W", "E", "R" >> },
      par \in { << >>, << " ", "3" >>, << " ", "O", "N" >>, << " ", "3", " ", "1", " ", "0" >> } }

\* u8::to_ascii_lowercase of a client that writes in lower case
to_ascii_lowercase(c) ==
  IF \E i \in 1..Len(Gross) : Gross[i] = c
    THEN Klein[CHOOSE i \in 1..Len(Gross) : Gross[i] = c]
    ELSE c

WellFormed ==
  GrossZeilen
  \cup { [i \in 1..Len(z) |-> to_ascii_lowercase(z[i])] : z \in GrossZeilen }
  \cup { Append(z, "CR") : z \in GrossZeilen }

SpecLine == Init /\ [][ParseSerialize(WellFormed)]_vars

\* the canonical form of a well-formed line: its printable characters in
\* upper case
Kanonisch(bytes) ==
  Text([i \in 1..Len(SelectSeq(bytes, LAMBDA c : c # "CR")) |->
          to_ascii_uppercase(SelectSeq(bytes, LAMBDA c : c # "CR")[i])])

\* C24: a well-formed command line that is parsed and written as a string
\* again gives the canonical form of the line, upper case and separated by
\* single spaces
C24_RoundTrip ==
  zeile.pc # "none" => zeile.pc = "ok" /\ zeile.text = Kanonisch(zeile.bytes)


\* ------------------------------------------------------------------------
\* Specification of the command line arguments: the program is started with
\* up to MaxArgs arguments after its own path
\* ------------------------------------------------------------------------
MaxArgs == 3
Argumente == { "-?", "-n", "-f", "-blabla", "configfilename" }
ArgLists == UNION { [1..n -> Argumente] : n \in 0..MaxArgs }

\* start up to the fork: arguments that cannot be parsed give the usage
\* text and the message, and start returns Ok(())
Start(arglists) ==
  \E a \in arglists :
    LET args == << "" >> \o a
        r == parse_cmd_line(args) IN
    /\ cmd_line' = [pc |-> IF r.ok THEN "config" ELSE "exit",
                    args |-> args,
                    fork |-> r.fork,
                    config_file |-> r.config_file,
                    message |-> r.message,
                    usage |-> ~r.ok,
                    status |-> 0]
    /\ UNCHANGED << now, watchdog, sent, main_vars, mfx_vars, overflow_checks, zeile, hs >>
    /\ UNCHANGED ddl_vars
    /\ UNCHANGED srcp_vars

SpecCmd == Init /\ [][Start(ArgLists)]_vars

\* the argument at position i is read as a flag, not as the file name of
\* a -f before it
RECURSIVE AlsFlagge(_, _)
AlsFlagge(a, i) == i = 2 \/ (i > 2 /\ ~(a[i - 1] = "-f" /\ AlsFlagge(a, i - 1)))

\* C25: no arguments give fork and the configuration file /etc/<name>.conf;
\* -n clears fork; -f <file> sets the configuration file; -? gives an error
\* with an empty message; an unknown flag, or -f without a file name, gives
\* an error that names the problem; on every such error the usage is
\* printed and the program ends without a failure status
C25_CmdLine ==
  LET a == cmd_line.args
      n == Len(a)
      flags == { i \in 2..n : AlsFlagge(a, i) }
      first_bad == { i \in flags : a[i] \notin { "-n", "-f" } /\ \A j \in flags : j < i => a[j] \in { "-n", "-f" } }
  IN
  cmd_line.pc # "none" =>
    /\ (n = 1 => cmd_line.pc = "config" /\ cmd_line.fork
                   /\ cmd_line.config_file = "/etc/srcpd_rust.conf")
    /\ (cmd_line.pc = "config" =>
          /\ cmd_line.fork = ~(\E i \in flags : a[i] = "-n")
          /\ \A i \in flags : a[i] = "-f" /\ (\A j \in flags : j > i => a[j] # "-f")
                                 => cmd_line.config_file = a[i + 1]
          /\ ~cmd_line.usage)
    /\ (\A i \in first_bad :
          /\ cmd_line.pc = "exit"
          /\ cmd_line.message = IF a[i] = "-?" THEN "" ELSE "Unbekannter Parameter " \o a[i])
    /\ (first_bad = {} /\ n \in flags /\ a[n] = "-f" =>
          cmd_line.pc = "exit" /\ cmd_line.message = "-f ohne Configfile")
    /\ (cmd_line.pc = "exit" => cmd_line.usage /\ cmd_line.status = 0)

C25_Witness ==
  /\ cmd_line.pc = "exit"
  /\ cmd_line.args = << "", "-n", "-f" >>
  /\ cmd_line.message = "-f ohne Configfile"


\* ------------------------------------------------------------------------
\* Specification of the scheduler queue: one command session sends SET
\* commands for locomotives and accessories, with power off or on
\* ------------------------------------------------------------------------
MaxCmdsQueue == 5
MaxTimeQueue == 100
TickQueue == 100

QueueCmds ==
  { Cmd(1, "SET", "POWER", << "ON" >>),
    Cmd(1, "INIT", "GL", << "1", "M", "2", "14", "2" >>),
    Cmd(1, "INIT", "GL", << "2", "M", "2", "14", "2" >>),
    Cmd(1, "INIT", "GA", << "1", "M" >>),
    Cmd(1, "SET", "GL", << "1", "1", "5", "14", "1", "0" >>),
    Cmd(1, "SET", "GL", << "2", "1", "5", "14", "1", "0" >>),
    Cmd(1, "SET", "GA", << "1", "0", "1", "100" >>),
    Cmd(1, "SET", "GA", << "1", "1", "1", "100" >>) }

\* the locomotive addresses the session uses
QueueLoks == { get_adr(c) : c \in { k \in QueueCmds : k.dev = "GL" } }

NextQueue ==
  \/ ClientSend(QueueCmds, MaxCmdsQueue)
  \/ Tick({TickQueue}, MaxTimeQueue)
  \/ LoopTop
  \/ Intake
  \/ Dispatch
  \/ Background({TRUE}, ShortcutDelay)
  \/ Dispatcher

SpecQueue == InitGL /\ [][NextQueue]_vars

\* C26: the queue of commands that are not dispatched stays below a fixed
\* bound however many commands arrive, with power on or off: one SET for
\* every locomotive
C26_QueueBounded == Len(queue) <= Cardinality(QueueLoks)


\* ------------------------------------------------------------------------
\* Specification of the delayed-send buffer: MIN_ANZ_GL_NO_DELAY DCC
\* locomotives are initialized; one command session switches the power and
\* terminates the locomotives one after the other
\* ------------------------------------------------------------------------
MaxCmdsBuf == 17
MaxTimeBuf == 100
TickBuf == 100
\* the scheduler takes a refresh step or a queued command while no more
\* than MaxBuf telegrams wait in the buffer
MaxBuf == 1

\* the GL device after INIT <bus> GL <adr> N 1 28 5 for the addresses
\* 1..MIN_ANZ_GL_NO_DELAY
GLBuf ==
  [GLNew EXCEPT !.all_gl = [adr \in 1..MIN_ANZ_GL_NO_DELAY |-> GLInit("N", "1", 28, 5, << >>)],
                !.all_idle_protokolle = << "M", "X" >>]

\* the commands of the session: the locomotive with the lowest address is
\* the next to be terminated
BufCmds ==
  { Cmd(1, "SET", "POWER", << "ON" >>), Cmd(1, "SET", "POWER", << "OFF" >>) }
  \cup { Cmd(1, "TERM", "GL", << to_string(adr) >>) :
           adr \in { a \in DOMAIN all_devices["GL"].all_gl :
                       \A b \in DOMAIN all_devices["GL"].all_gl : a <= b } }

InitBuf ==
  /\ InitBusMit(GLBuf)
  /\ watchdog = FALSE
  /\ InitMfx({Nichts}, {{}})
  /\ overflow_checks = FALSE

DispatchBuf == Len(all_devices["GL"].tel_buffer) <= MaxBuf /\ Dispatch

NextBuf ==
  \/ ClientSend(BufCmds, MaxCmdsBuf)
  \/ Tick({TickBuf}, MaxTimeBuf)
  \/ LoopTop
  \/ Intake
  \/ DispatchBuf
  \/ Background({TRUE}, ShortcutDelay)
  \/ Dispatcher

SpecBuf == InitBuf /\ [][NextBuf]_vars

MaxCmdsSpeed == 4
MaxTimeSpeed == 100
TickSpeed == 100

SpeedCmds ==
  { Cmd(1, "SET", "POWER", << "ON" >>),
    Cmd(1, "INIT", "GL", << "1", "M", "2", "14", "2" >>),
    Cmd(1, "INIT", "GL", << "2", "N", "1", "28", "5" >>),
    Cmd(1, "SET", "GL", << "1", "1", "7", "14", "1", "0" >>),
    Cmd(1, "SET", "GL", << "1", "0", "14", "14", "0", "0" >>),
    Cmd(1, "SET", "GL", << "1", "1", "20", "14", "1", "0" >>),
    Cmd(1, "SET", "GL", << "2", "1", "50", "100", "1" >>),
    Cmd(1, "SET", "GL", << "2", "1", "255", "1", "1" >>) }

NextSpeed ==
  \/ ClientSend(SpeedCmds, MaxCmdsSpeed)
  \/ Tick({TickSpeed}, MaxTimeSpeed)
  \/ LoopTop
  \/ Intake
  \/ Dispatch
  \/ Background({TRUE}, ShortcutDelay)
  \/ Dispatcher

SpecSpeed == InitGL /\ [][NextSpeed]_vars

\* C28: the stored speed of every locomotive is within 0..speedSteps of
\* its record after every SET that was accepted and executed
C28_SpeedInRange ==
  ddl_pc # "panic" =>
    \A adr \in DOMAIN all_devices["GL"].all_gl :
      /\ all_devices["GL"].all_gl[adr].speed >= 0
      /\ all_devices["GL"].all_gl[adr].speed <= all_devices["GL"].all_gl[adr].protokoll_speedsteps


\* ------------------------------------------------------------------------
\* Specification of the idle protocols: one command session initializes
\* and terminates locomotives of the three protocols
\* ------------------------------------------------------------------------
MaxCmdsIdle == 4
MaxTimeIdle == 100
TickIdle == 100

IdleCmds ==
  { Cmd(1, "SET", "POWER", << "ON" >>),
    Cmd(1, "INIT", "GL", << "1", "M", "2", "14", "2" >>),
    Cmd(1, "INIT", "GL", << "2", "M", "2", "14", "2" >>),
    Cmd(1, "INIT", "GL", << "1", "N", "1", "28", "5" >>),
    Cmd(1, "INIT", "GL", << "3", "X", "0", "127", "16", "77" >>),
    Cmd(1, "TERM", "GL", << "1" >>),
    Cmd(1, "TERM", "GL", << "2" >>),
    Cmd(1, "TERM", "GL", << "3" >>) }

NextIdle ==
  \/ ClientSend(IdleCmds, MaxCmdsIdle)
  \/ Tick({TickIdle}, MaxTimeIdle)
  \/ LoopTop
  \/ Intake
  \/ Dispatch
  \/ Background({TRUE}, ShortcutDelay)
  \/ Dispatcher

SpecIdle == InitGL /\ [][NextIdle]_vars

\* the protocol is in the idle set of the GL device
IstIdle(protokoll) ==
  \E i \in 1..Len(all_devices["GL"].all_idle_protokolle) :
    all_devices["GL"].all_idle_protokolle[i] = protokoll

\* C29: after every GL INIT and every GL TERM the protocols MM and DCC are
\* in the idle set exactly when fewer than 2 initialized locomotives use
\* them, and any other protocol exactly when no initialized locomotive
\* uses it
C29_IdleSet ==
  \A protokoll \in ProtokollNamen :
    IstIdle(protokoll) <=>
      IF protokoll \in { "M", "N" }
        THEN count_protokoll(all_devices["GL"], protokoll) < IDLE_COUNT_MM_DCC
        ELSE count_protokoll(all_devices["GL"], protokoll) = 0


\* ------------------------------------------------------------------------
\* Specification of the refresh cycle: one command session switches the
\* power on, initializes locomotives and terminates one of them
\* ------------------------------------------------------------------------
MaxCmdsRefresh == 4
MaxTimeRefresh == 100
TickRefresh == 100

RefreshCmds ==
  { Cmd(1, "SET", "POWER", << "ON" >>),
    Cmd(1, "INIT", "GL", << "1", "M", "2", "14", "2" >>),
    Cmd(1, "INIT", "GL", << "2", "M", "2", "14", "2" >>),
    Cmd(1, "INIT", "GL", << "3", "N", "1", "28", "5" >>),
    Cmd(1, "TERM", "GL", << "2" >>) }

NextRefresh ==
  \/ ClientSend(RefreshCmds, MaxCmdsRefresh)
  \/ Tick({TickRefresh}, MaxTimeRefresh)
  \/ LoopTop
  \/ Intake
  \/ Dispatch
  \/ Background({TRUE}, ShortcutDelay)
  \/ Dispatcher

SpecRefresh == InitGL /\ [][NextRefresh]_vars

\* the scheduler takes a refresh step: power is on and the queue is empty
RefreshStep ==
  /\ ddl_pc = "intake" /\ rx = << >> /\ ddl_pc' # "intake"
  /\ ddl_power_on /\ queue = << >>

\* the addresses of the locomotive telegrams of the step
RefreshAdrs ==
  LET tels == SelectSeq(spi', LAMBDA t : t.dev = "GL") IN
  [i \in 1..Len(tels) |-> tels[i].adr]

\* the protocols of the idle packets of the step
RefreshIdle ==
  LET tels == SelectSeq(spi', LAMBDA t : t.dev # "GL") IN
  [i \in 1..Len(tels) |-> tels[i].dev]

\* C30: with power on and an empty queue the refresh steps send one
\* telegram per locomotive address in ascending order, then the idle
\* packet of each idle protocol once, then start again with the first
\* address: the step after the address adr_refresh sends the next address,
\* the step after the last address sends the idle packets, and the step
\* after that the first address
C30_RefreshCycle ==
  [][RefreshStep =>
       LET gl == all_devices["GL"]
           adrs == Sorted(DOMAIN gl.all_gl)
           weiter == { a \in DOMAIN gl.all_gl : a > gl.adr_refresh }
       IN  /\ ddl_pc' = "background"
           /\ DOMAIN all_devices'["GL"].all_gl = DOMAIN gl.all_gl
           /\ IF weiter # {}
                THEN LET adr == CHOOSE a \in weiter : \A b \in weiter : a <= b IN
                     /\ RefreshAdrs = << adr >>
                     /\ RefreshIdle = << >>
                     /\ all_devices'["GL"].adr_refresh = adr
                ELSE /\ RefreshAdrs = << >>
                     /\ RefreshIdle = gl.all_idle_protokolle
                     /\ all_devices'["GL"].adr_refresh = 0]_vars



\* C36: a refresh step never looks up or sends a telegram for a locomotive
\* that has been terminated, also when it was the one refreshed last, and
\* the cycle goes on with the locomotives that remain: the step ends
\* without panic, every locomotive telegram of it is for an initialized
\* address, and so is the address it leaves in adr_refresh (or 0)
C36_TermLeavesCycle ==
  [][RefreshStep =>
       LET gl == all_devices["GL"] IN
       /\ ddl_pc' = "background"
       /\ \A i \in 1..Len(RefreshAdrs) : RefreshAdrs[i] \in DOMAIN gl.all_gl
       /\ all_devices'["GL"].adr_refresh \in DOMAIN gl.all_gl \cup {0}]_vars

\* ------------------------------------------------------------------------
\* Specification of the power handling in siggmode: the booster is started
\* and stopped by impulses, timeout_shortcut_power_off is configured, the
\* booster reports on or off
\* ------------------------------------------------------------------------
MaxCmdsSigg == 2
MaxTimeSigg == 3000
TickSigg == 250
\* timeout_shortcut_power_off of the configuration file, in ms
TimeoutShortcutPowerOff == 500

SiggCmds ==
  { Cmd(1, "SET", "POWER", << "ON" >>),
    Cmd(1, "SET", "POWER", << "OFF" >>) }

InitSigg ==
  /\ InitBusDev(PowerNewSigg(0, TimeoutShortcutPowerOff), GLNew)
  /\ watchdog = FALSE
  /\ InitMfx({Nichts}, {{}})
  /\ overflow_checks = FALSE

NextSigg ==
  \/ ClientSend(SiggCmds, MaxCmdsSigg)
  \/ Tick({TickSigg}, MaxTimeSigg)
  \/ LoopTop
  \/ Intake
  \/ Dispatch
  \/ Background({TRUE, FALSE}, ShortcutDelay)
  \/ Dispatcher

SpecSigg == InitSigg /\ [][NextSigg]_vars

\* the background step starts the booster again by itself: the power stays
\* on and a new start impulse begins
AutoEnable ==
  /\ all_devices["POWER"].power_on
  /\ all_devices'["POWER"].power_on
  /\ all_devices'["POWER"].impuls_aus # all_devices["POWER"].impuls_aus

\* C31: in siggmode with timeout_shortcut_power_off configured the booster
\* is started again by itself only if it had been on, for at least that
\* timeout since its start; a booster that is still off after the attempt
\* is not started once more, the power is switched off
C31_OneShot ==
  [][AutoEnable =>
       /\ all_devices["POWER"].booster_war_ein
       /\ all_devices["POWER"].sigg_mode_auto_power_on <= now]_vars


\* ------------------------------------------------------------------------
\* Specification of the short circuit supervision without siggmode: time
\* advances in steps shorter than shortcut_delay, the booster reports on or
\* off at every background step, no watchdog
\* ------------------------------------------------------------------------
MaxCmdsShort == 3
MaxTimeShort == 400
TickShort == 50

ShortCmds ==
  { Cmd(1, "SET", "POWER", << "ON" >>),
    Cmd(1, "SET", "POWER", << "OFF" >>) }

InitShort == Init /\ watchdog = FALSE

NextShort ==
  \/ ClientSend(ShortCmds, MaxCmdsShort)
  \/ Tick({TickShort}, MaxTimeShort)
  \/ LoopTop
  \/ Intake
  \/ Dispatch
  \/ Background({TRUE, FALSE}, ShortcutDelay)
  \/ Dispatcher

SpecShort == InitShort /\ [][NextShort]_vars

\* the background step of the scheduler iteration
BackgroundStep == ddl_pc = "background" /\ ddl_pc' # "background"

\* the time since the last moment without short circuit is longer than
\* shortcut_delay
ShortcutZeit ==
  now > all_devices["POWER"].kein_shortcut + ShortcutDelay

\* C32: without siggmode a background step with the power off sets the
\* timestamp kein_shortcut to now; with the power on it either sets the
\* timestamp to now and leaves the power on (booster reports on), or leaves
\* the timestamp alone and switches the power off exactly when more than
\* shortcut_delay has passed since the timestamp (booster reports off)
C32_Shortcut ==
  [][BackgroundStep =>
       LET pw == all_devices["POWER"]
           pn == all_devices'["POWER"]
       IN  IF ~pw.power_on
             THEN pn.kein_shortcut = now /\ ~pn.power_on
             ELSE \/ pn.kein_shortcut = now /\ pn.power_on
                  \/ /\ pn.kein_shortcut = pw.kein_shortcut
                     /\ pn.power_on = ~ShortcutZeit]_vars

\* C32 case: the background step has switched the power off, more than
\* shortcut_delay after the last moment without short circuit, and the INFO
\* of it is on the info channel
C32_Witness ==
  /\ zweig = "background"
  /\ ~all_devices["POWER"].power_on
  /\ ShortcutZeit
  /\ all_devices["POWER"].kein_shortcut > 0
  /\ info_tx # << >>
  /\ info_tx[Len(info_tx)] = new_info(None, "POWER", << "OFF" >>)


\* ------------------------------------------------------------------------
\* Specification of the MFX decoder search: decoders stand on the track, the
\* search finds them bit by bit, a decoder can be taken off the track at any
\* time; the counter file can be written
\* ------------------------------------------------------------------------
MaxCmdsSuche == 1
MaxTimeSuche == 100
TickSuche == 100

SucheCmds == { Cmd(1, "SET", "POWER", << "ON" >>) }

\* the counter files a start can find
SucheFiles == { Nichts, Some("1") }

\* the decoders on the track: UIDs 0x80000001 and 0x00000003
SucheDekoder == { {1, 32}, {31, 32} }

InitSuche ==
  /\ InitBus /\ watchdog = FALSE
  /\ InitMfx(SucheFiles, {SucheDekoder})
  /\ overflow_checks = FALSE

\* a decoder is taken off the track
DekoderWeg ==
  /\ \E d \in gleis : gleis' = gleis \ {d}
  /\ UNCHANGED << now, watchdog, sent, rx, info_tx, spi, all_devices, queue,
                  instant_kommando, ddl_power_on, ddl_pc, zweig, validiert, arrivals,
                  queue_nr, eff_nr >>
  /\ UNCHANGED srcp_vars
  /\ UNCHANGED << main_vars, mfx, reg_counter_file, overflow_checks, io_vars >>

NextSuche ==
  \/ ClientSend(SucheCmds, MaxCmdsSuche)
  \/ Tick({TickSuche}, MaxTimeSuche)
  \/ LoopTop
  \/ Intake
  \/ Dispatch
  \/ Background({TRUE}, ShortcutDelay)
  \/ Dispatcher
  \/ MfxSuche({TRUE})
  \/ DekoderWeg

SpecSuche == InitSuche /\ [][NextSuche]_vars

\* the search is at its start: no bit, UID 0
SucheNeu(st) == st.search_new_dekoder_bits = 0 /\ st.search_new_dekoder_uid = {}

\* one evaluation of a search telegram follows the state machine of the
\* search; abbruch is the result of the evaluation that ends the search
\* without a decoder
Suchschritt(abbruch) ==
  mfx'.ergebnis # mfx.ergebnis \/ mfx'.search_new_dekoder_bits # mfx.search_new_dekoder_bits
    \/ mfx'.search_new_dekoder_uid # mfx.search_new_dekoder_uid =>
    LET bits == mfx.search_new_dekoder_bits
        suid == mfx.search_new_dekoder_uid
        e == mfx'.ergebnis
    IN  /\ e.bits = bits /\ e.uid = suid
        /\ e.positiv /\ bits < UID_BITS =>
             /\ mfx'.search_new_dekoder_bits = bits + 1
             /\ mfx'.search_new_dekoder_uid = suid
        /\ e.positiv /\ bits = UID_BITS =>
             /\ e.result = "Ok"
             /\ mfx'.reg_counter = mfx.reg_counter + 1
             /\ reg_counter_file' = Some(to_string(mfx'.reg_counter))
             /\ SucheNeu(mfx')
        /\ ~e.positiv /\ bits > 0 /\ bits \notin suid =>
             /\ mfx'.search_new_dekoder_bits = bits
             /\ mfx'.search_new_dekoder_uid = suid \cup {bits}
        /\ ~e.positiv /\ bits > 0 /\ bits \in suid =>
             /\ e.result = abbruch
             /\ SucheNeu(mfx')

MaxHsLines == 4

HsLines ==
  { << "S", "E", "T", " ", "P", "R", "O", "T", "O", "C", "O", "L", " ", "S", "R", "C", "P", " ", "0", ".", "8", ".", "4" >>,
    << "s", "e", "t", " ", "c", "o", "n", "n", "e", "c", "t", "i", "o", "n", "m", "o", "d", "e", " ", "s", "r", "c", "p", " ", "c", "o", "m", "m", "a", "n", "d", "CR" >>,
    << "S", "E", "T", " ", "C", "O", "N", "N", "E", "C", "T", "I", "O", "N", "M", "O", "D", "E", " ", "S", "R", "C", "P", " ", "I", "N", "F", "O" >>,
    << "G", "O" >>,
    << "g", "o", "CR" >>,
    << "G", "E", "T", " ", "1", " ", "P", "O", "W", "E", "R" >>,
    << "S", "E", "T", " ", "C", "O", "N", "N", "E", "C", "T", "I", "O", "N", "M", "O", "D", "E", " ", "S", "R", "C", "P" >>,
    << "T", "E", "R", "M", " ", "0", " ", "S", "E", "S", "S", "I", "O", "N" >> }

\* a connection is accepted, the first one or the next one after the
\* handshake of the one before has ended; the welcome message is written
HsAccept ==
  /\ hs.pc \in {"none", "done", "err"}
  /\ hs' = HandshakeStart
  /\ UNCHANGED << now, watchdog, sent, ddl_vars, srcp_vars, main_vars, mfx_vars,
                  overflow_checks, zeile, cmd_line >>

\* the client has sent a line and the handshake has dealt with it
HsLine(lines) ==
  /\ hs.pc \in {"mode", "go"}
  /\ Len(hs.out) <= MaxHsLines
  /\ \E bytes \in lines : hs' = handle_srcp_handshake(hs, bytes, 1)
  /\ UNCHANGED << now, watchdog, sent, ddl_vars, srcp_vars, main_vars, mfx_vars,
                  overflow_checks, zeile, cmd_line >>

SpecHs == Init /\ [][HsAccept \/ HsLine(HsLines)]_vars

\* the line the handshake has dealt with last, as read_line returns it
HsText == Text(read_line(hs'.line))

\* this step deals with a line that is neither SET PROTOCOL SRCP nor one of
\* the two SET CONNECTIONMODE lines nor the GO that is awaited
HsAndere ==
  /\ hs.pc \in {"mode", "go"}
  /\ hs'.pc # "mode" \/ hs'.out # hs.out \/ hs'.line # hs.line
  /\ ~starts_with(read_line(hs'.line), SET_PROTOCOL_SRCP)
  /\ HsText \notin {"SET CONNECTIONMODE SRCP COMMAND", "SET CONNECTIONMODE SRCP INFO"}
  /\ ~(hs.pc = "go" /\ HsText = "GO")

\* the step writes 401 ERROR unsupported connection mode and nothing else
HsAntwort401 ==
  hs'.out = Append(hs.out, "401 ERROR unsupported connection mode")

\* C34 as stated: in every state of the handshake a line that is none of
\* SET PROTOCOL SRCP, SET CONNECTIONMODE SRCP COMMAND, SET CONNECTIONMODE
\* SRCP INFO or the awaited GO is answered with 401 ERROR unsupported
\* connection mode
C34_Always401 == [][HsAndere => HsAntwort401]_vars

\* C34 amended: while the connection mode is awaited such a line is
\* answered with 401 ERROR unsupported connection mode and the handshake
\* goes on; while GO is awaited it ends the handshake without a reply
C34_Handshake401 ==
  [][HsAndere =>
       IF hs.pc = "mode" THEN HsAntwort401 /\ hs'.pc = "mode"
       ELSE hs'.out = hs.out /\ hs'.pc = "err"]_vars

\* C34 case: a client that asked for a command before the connection mode
\* has got the 401 reply and the handshake still awaits the mode
C34_Witness ==
  /\ hs.pc = "mode"
  /\ Text(read_line(hs.line)) = "GET 1 POWER"
  /\ hs.out = << "srcpd V; SRCP 0.8.4", "401 ERROR unsupported connection mode" >>


\* ------------------------------------------------------------------------
\* Specification of TERM: a command session initializes a locomotive and an
\* accessory and terminates them, with and without the address
\* ------------------------------------------------------------------------
MaxCmdsTermAdr == 3
MaxTimeTermAdr == 100
TickTermAdr == 100

TermAdrCmds ==
  { Cmd(1, "INIT", "GL", << "1", "M", "2", "14", "2" >>),
    Cmd(1, "INIT", "GA", << "1", "M" >>),
    Cmd(1, "TERM", "GL", << "1" >>),
    Cmd(1, "TERM", "GA", << "1" >>),
    Cmd(1, "TERM", "GL", << >>),
    Cmd(1, "TERM", "GA", << >>) }

NextTermAdr ==
  \/ ClientSend(TermAdrCmds, MaxCmdsTermAdr)
  \/ Tick({TickTermAdr}, MaxTimeTermAdr)
  \/ LoopTop
  \/ Intake
  \/ Dispatch
  \/ Background({TRUE}, ShortcutDelay)
  \/ Dispatcher

SpecTermAdr == InitGL /\ [][NextTermAdr]_vars

\* the scheduler takes in a TERM for GL or GA that carries no address
TermOhneAdr ==
  /\ ddl_pc = "intake" /\ rx # << >> /\ rx' = Tail(rx)
  /\ Head(rx).kind = "CMD" /\ Head(rx).code = "TERM"
  /\ Head(rx).dev \in {"GL", "GA"}
  /\ Head(rx).par = << >>

\* C38: a TERM for GL or GA without address parameter is answered with
\* exactly one ERROR message to its session, and the scheduler goes on
C38_TermOhneAdr ==
  [][TermOhneAdr =>
       /\ ddl_pc' = "intake"
       /\ \E m \in Elems(Emitted) :
             /\ m.kind = "ERROR" /\ m.sid = Head(rx).sid
             /\ info_tx' = Append(info_tx, m)]_vars


\* ------------------------------------------------------------------------
\* Specification of a bus under a stream of commands: the power is on, two
\* locomotives are initialized, and sessions keep sending SETs for them
\* without end.  The scheduler loop and the dispatcher run in threads of
\* their own, so each step is taken when it stays possible; the intake loop
\* ends whenever the command channel is empty, so the queue is worked on
\* again and again.
\* ------------------------------------------------------------------------
MaxTimeStrom == 100
TickStrom == 100

StromCmds ==
  { Cmd(1, "SET", "GL", << "1", "1", "5", "14", "1", "0" >>),
    Cmd(1, "SET", "GL", << "2", "1", "5", "14", "1", "0" >>) }

\* the POWER device after SET POWER ON
PowerStrom ==
  set_power(Res(PowerNew(0), << >>, << >>, FALSE), TRUE, 0).st

\* the GL device after INIT of the locomotives 1 and 2
GLStrom ==
  LET r1 == gl_execute_cmd(Res(GLNew, << >>, << >>, FALSE),
                           Cmd(1, "INIT", "GL", << "1", "M", "2", "14", "2" >>))
      r2 == gl_execute_cmd(Res(r1.st, << >>, << >>, FALSE),
                           Cmd(1, "INIT", "GL", << "2", "M", "2", "14", "2" >>))
  IN  r2.st

InitStrom ==
  /\ InitBusDev(PowerStrom, GLStrom)
  /\ watchdog = FALSE
  /\ InitMfx({Nichts}, {{}})
  /\ overflow_checks = FALSE

\* the commands that wait in the command channel at most
MaxRxStrom == 2

\* a session hands a command to the bus; there is no end to the commands.
\* They arrive while the scheduler sends a telegram and does the background
\* work, so that every intake loop finds the channel empty at some time.
ClientStrom(cmds) ==
  /\ Running
  /\ ddl_pc \in {"top", "background"}
  /\ Len(rx) < MaxRxStrom
  /\ \E c \in cmds : rx' = Append(rx, c)
  /\ UNCHANGED << now, watchdog, sent, info_tx, spi, all_devices, queue, instant_kommando,
                  ddl_power_on, ddl_pc, zweig, validiert, arrivals, queue_nr, eff_nr >>
  /\ UNCHANGED srcp_vars
  /\ UNCHANGED other_vars

NextStrom ==
  \/ ClientStrom(StromCmds)
  \/ Tick({TickStrom}, MaxTimeStrom)
  \/ LoopTop
  \/ Intake
  \/ Dispatch
  \/ Background({TRUE}, ShortcutDelay)
  \/ Dispatcher

FairSpecStrom ==
  /\ InitStrom
  /\ [][NextStrom]_vars
  /\ WF_vars(LoopTop)
  /\ WF_vars(Intake)
  /\ WF_vars(Dispatch)
  /\ WF_vars(Background({TRUE}, ShortcutDelay))
  /\ WF_vars(Dispatcher)

\* a SET for the locomotive adr waits in the queue
InQueue(adr) ==
  \E i \in 1..Len(queue) : queue[i].dev = "GL" /\ get_adr(queue[i]) = adr

\* C40: while the power is on, a SET for a locomotive that waits in the
\* queue is executed at some time (it leaves the queue only by being
\* executed; a newer SET for the same address takes its place in the
\* queue), also when newer SETs for it and other commands keep coming
C40_NoStarvation ==
  \A adr \in 1..2 :
     (InQueue(adr) /\ ddl_power_on /\ is_dev_spezifisch(all_devices["POWER"], now))
       ~> (~InQueue(adr) \/ ddl_pc = "panic")

====
